---- MODULE Spec2Model ----
(***************************************************************************)
(* Model of the incremental scraper of svnl-data: the table extractor and  *)
(* hash/cache gate (src/cache.ts), the per-competition scrape and the      *)
(* sequential batch loop (src/scraper.ts), and the grouping done by        *)
(* parseCompetitionPage (src/parser.ts).                                   *)
(*                                                                         *)
(* A document (page markup or table fragment) is a sequence of strings:    *)
(* the element "html" stands for the markup surrounding the tables of a    *)
(* full page, every other element is the outerHTML of one table.  A file   *)
(* is a record [exists, data].  A hash is the sequence of hex digits of    *)
(* the digest.                                                             *)
(***************************************************************************)
EXTENDS Integers, Sequences, FiniteSets, TLC

\* ---------------------------------------------------------------- bounds
MaxComps == 2       \* longest competition list handed to one run
MaxCalls == 4       \* scrapeCompetition calls explored, over all runs
MaxFaults == 1      \* I/O failures and process interruptions explored

\* ------------------------------------------------------------ the inputs
Ids == {"c1", "c2"}

\* Competition names: c2 is announced as an equipped ("varuste") meet.
CompetitionName(id) ==
  IF id = "c2" THEN <<"sm", "varuste">> ELSE <<"pv">>

Row(kind, text, label) == [kind |-> kind, text |-> text, label |-> label]

\* The rows of each table: the flattened text of a row is a set of tokens.
TableRows(t) ==
  CASE t = "tA" -> << Row("header", {"sij", "nimi", "seura"}, ""),
                      Row("data", {"1", "l1"}, "l1") >>
    [] t = "tB" -> << Row("header", {"sij", "nimi", "seura"}, ""),
                      Row("data", {"1", "l2"}, "l2"),
                      Row("banner", {"varustevoimanosto"}, "equipped"),
                      Row("data", {"1", "l3"}, "l3") >>
    [] t = "tX" -> << Row("header", {"nimi"}, ""),
                      Row("header", {"seura"}, ""),
                      Row("data", {"1", "l4"}, "l4") >>
    [] OTHER -> << >>

\* The pages the site can serve.
Pages == { <<"html", "tX">>,
           <<"html", "tX", "tA">>,
           <<"html", "tA", "tB">> }

IsTable(e) == e # "html"

\* ----------------------------------------------------------- src/cache.ts
\* A table is a result table when one row's text holds "nimi" and "seura".
hasResultsTable(t) ==
  \E k \in 1..Len(TableRows(t)) :
     {"nimi", "seura"} \subseteq TableRows(t)[k].text

relevantTables(html) ==
  SelectSeq(html, LAMBDA e : IsTable(e) /\ hasResultsTable(e))

\* extractCompetitionTables throws when no table qualifies.
extractThrows(html) == Len(relevantTables(html)) = 0

extractCompetitionTables(html) == relevantTables(html)

\* Byte codes of the serialized elements.
Code(e) ==
  CASE e = "html" -> 11
    [] e = "tA" -> 3
    [] e = "tB" -> 5
    [] e = "tX" -> 7
    [] OTHER -> 13

RECURSIVE Digest(_)
Digest(doc) ==
  IF Len(doc) = 0 THEN 17
  ELSE (Digest(SubSeq(doc, 1, Len(doc) - 1)) * 31 + Code(doc[Len(doc)])) % 256

\* A digest that only covers the first element of the text.
computeHashFirstOnly(doc) ==
  << Digest(SubSeq(doc, 1, 1)) \div 16, Digest(SubSeq(doc, 1, 1)) % 16 >>

\* computeHash: the digest of the text, as hex digits.
computeHash(doc) == << Digest(doc) \div 16, Digest(doc) % 16 >>

NoFile == [exists |-> FALSE, data |-> << >>]
FileOf(d) == [exists |-> TRUE, data |-> d]

\* null is modelled by the empty text: both are falsy where they are used.
Null == << >>

\* getHtmlHash / readHtmlCache: null when the file is missing or the read
\* throws, otherwise the file's text.
readOrNull(file, readOk) ==
  IF ~file.exists THEN Null
  ELSE IF readOk THEN file.data ELSE Null

\* A gate that takes a hash it could not get for a match.
shouldScrapeReasonSkipsOnNull(cachedHash, newTableHtml) ==
  IF cachedHash = Null THEN "unchanged"
  ELSE IF computeHash(newTableHtml) # cachedHash THEN "content changed"
  ELSE "unchanged"

\* shouldScrape, given what getHtmlHash returned.
shouldScrapeReason(cachedHash, newTableHtml) ==
  IF cachedHash = Null THEN "no cache"
  ELSE IF computeHash(newTableHtml) # cachedHash THEN "content changed"
  ELSE "unchanged"

\* A gate that scrapes only when no hash is stored.
shouldScrapeOnlyUncached(cachedHash, newTableHtml) ==
  [ shouldScrape |-> cachedHash = Null,
    reason |-> shouldScrapeReason(cachedHash, newTableHtml) ]

shouldScrape(cachedHash, newTableHtml) ==
  [ shouldScrape |-> shouldScrapeReason(cachedHash, newTableHtml) # "unchanged",
    reason |-> shouldScrapeReason(cachedHash, newTableHtml) ]

\* ---------------------------------------------------------- src/parser.ts
RECURSIVE lifterRows(_, _, _)
\* The row loop of parseLifters for one table: equipment banners set the
\* live equipment, data rows are emitted with it.
lifterRows(rows, k, currentEquipment) ==
  IF k > Len(rows) THEN << >>
  ELSE IF rows[k].kind = "banner"
       THEN lifterRows(rows, k + 1, rows[k].label)
  ELSE IF rows[k].kind = "data"
       THEN << [name |-> rows[k].label, equipment |-> currentEquipment] >>
            \o lifterRows(rows, k + 1, currentEquipment)
  ELSE lifterRows(rows, k + 1, currentEquipment)

RECURSIVE parseLifters(_)
\* Tables without a "nimi"/"seura" row are skipped; the live equipment
\* starts at raw for every table.
parseLifters(doc) ==
  IF Len(doc) = 0 THEN << >>
  ELSE LET t == Head(doc)
           here == IF IsTable(t) /\ hasResultsTable(t)
                   THEN lifterRows(TableRows(t), 1, "raw")
                   ELSE << >>
       IN here \o parseLifters(Tail(doc))

Contains(s, x) == \E k \in 1..Len(s) : s[k] = x

forceEquipped(lifters) ==
  [k \in 1..Len(lifters) |-> [lifters[k] EXCEPT !.equipment = "equipped"]]

\* The equipment categories in order of first appearance (Map insertion order).
RECURSIVE equipmentKeys(_, _)
equipmentKeys(lifters, seen) ==
  IF Len(lifters) = 0 THEN seen
  ELSE equipmentKeys(Tail(lifters),
         IF Contains(seen, Head(lifters).equipment) THEN seen
         ELSE Append(seen, Head(lifters).equipment))

parseCompetitionPage(doc, id) ==
  LET name == CompetitionName(id)
      rowLifters == parseLifters(doc)
      lifters == IF Contains(name, "varuste") THEN forceEquipped(rowLifters)
                 ELSE rowLifters
      keys == equipmentKeys(lifters, << >>)
  IN IF Len(keys) <= 1
     THEN << [competition |-> [id |-> <<id>>, name |-> name],
              lifters |-> lifters] >>
     ELSE [k \in 1..Len(keys) |->
             [competition |->
                [id |-> <<id, keys[k]>>,
                 name |-> Append(name, IF keys[k] = "raw" THEN "(Classic)"
                                       ELSE "(Equipped)")],
              lifters |-> SelectSeq(lifters,
                            LAMBDA l : l.equipment = keys[k])]]

\* --------------------------------------------------------- src/scraper.ts
VARIABLES
  cacheDir,      \* HTML_CACHE_DIR exists
  htmlFile,      \* <id>.html
  hashFile,      \* <id>.html.hash
  htmlTemp,      \* <id>.html.tmp
  hashTemp,      \* <id>.html.hash.tmp
  pc,            \* position of the running process ("idle": none)
  entry,         \* "scrapeCompetitions" or "scrapeCompetition"
  competitions,  \* the list handed to the run
  options,       \* [force, useCache]
  i,             \* loop index of scrapeCompetitions (1-based)
  results,       \* results of scrapeCompetitions
  call,          \* locals of the current scrapeCompetition call
  prevCall,      \* summary of the call completed before it (history)
  events,        \* fetch / end / delay events of the run (history)
  calls,         \* scrapeCompetition calls handed to runs so far
  faults         \* failures and interruptions so far

\* src/cli/validate.ts: validateCompetitionResult and its loop.
VARIABLES
  vpc,                  \* position in validateCompetitionResult ("off": no call)
  validated,            \* the CompetitionResult handed in (parameter result)
  lifterIdx,            \* index of the lifter the loop is at (1-based)
  warnings,             \* warnings collected so far
  liftersWithWarnings,  \* counter of the loop
  lifterWarnings,       \* what validateLifter returned for each lifter (history)
  summary               \* the ValidationSummary returned

\* src/parser.ts: parseCompetitionPage and the row loop of parseLifters.
VARIABLES
  ppc,             \* position in parseCompetitionPage ("off": no call)
  competition,     \* the competition handed in
  trows,           \* the rows (tr) of the table the loop is at
  laterTables,     \* the tables of the document after it
  columnMap,       \* detectColumnMap of the header rows
  dataStartIndex,  \* index of the first row of the loop (1-based)
  defaultGender,   \* "M", "F" or "" (null)
  curGender,       \* currentGender: "M", "F" or "" (null)
  curAgeClass,     \* currentAgeClassHeader: a code or "" (null)
  curEquipment,    \* currentEquipment
  rowIdx,          \* index of the row the loop is at (1-based)
  lifterList,      \* lifters pushed so far
  pageResult       \* the CompetitionResult[] returned

validatorVars == <<vpc, validated, lifterIdx, warnings, liftersWithWarnings,
                   lifterWarnings, summary>>
parserVars == <<ppc, competition, trows, laterTables, columnMap, dataStartIndex,
                defaultGender, curGender, curAgeClass, curEquipment, rowIdx,
                lifterList, pageResult>>
pureVars == <<validatorVars, parserVars>>

files == <<cacheDir, htmlFile, hashFile, htmlTemp, hashTemp>>
run == <<entry, competitions, options, calls>>
scraperVars == <<cacheDir, htmlFile, hashFile, htmlTemp, hashTemp, pc, entry,
                 competitions, options, i, results, call, prevCall, events,
                 calls, faults>>
vars == <<scraperVars, validatorVars, parserVars>>

\* The locals of scrapeCompetition (id, force, useCache, html, tableHtml,
\* skipped, usedCache, result) and what the call did: the fragment it
\* extracted, the reason of the decision, whether a step of the try block
\* failed or threw, whether it renamed a file into the cache entry, and its
\* status (running, returned, threw).
NoCall ==
  [ id |-> "", force |-> FALSE, useCache |-> TRUE, html |-> << >>,
    tableHtml |-> << >>, skipped |-> FALSE, usedCache |-> FALSE,
    extracted |-> << >>, reason |-> "", failed |-> FALSE, wrote |-> FALSE,
    status |-> "none", result |-> << >> ]

\* What is kept of a completed call: whether it returned with caching
\* enabled, force off and no failed step, and then its id and fragment.
Clean(c) ==
  c.status = "returned" /\ ~c.failed /\ c.useCache /\ ~c.force

Summary(c) ==
  IF Clean(c) THEN [clean |-> TRUE, id |-> c.id, extracted |-> c.extracted]
  ELSE [clean |-> FALSE, id |-> "", extracted |-> << >>]

CompLists ==
  UNION { [1..n -> Ids] : n \in 1..MaxComps }

\* No validation is under way.
ValidatorOff ==
  /\ vpc = "off"
  /\ validated = << >>
  /\ lifterIdx = 0
  /\ warnings = << >>
  /\ liftersWithWarnings = 0
  /\ lifterWarnings = << >>
  /\ summary = << >>

\* No parse is followed row by row.
ParserOff ==
  /\ ppc = "off"
  /\ competition = << >>
  /\ trows = << >>
  /\ laterTables = << >>
  /\ columnMap = << >>
  /\ dataStartIndex = 0
  /\ defaultGender = ""
  /\ curGender = ""
  /\ curAgeClass = ""
  /\ curEquipment = ""
  /\ rowIdx = 0
  /\ lifterList = << >>
  /\ pageResult = << >>

\* The scraper before its first run: nothing cached, no run under way.
ScraperIdle ==
  /\ cacheDir = FALSE
  /\ htmlFile = [id \in Ids |-> NoFile]
  /\ hashFile = [id \in Ids |-> NoFile]
  /\ htmlTemp = [id \in Ids |-> NoFile]
  /\ hashTemp = [id \in Ids |-> NoFile]
  /\ pc = "idle"
  /\ entry = ""
  /\ competitions = << >>
  /\ options = [force |-> FALSE, useCache |-> TRUE]
  /\ i = 0
  /\ results = << >>
  /\ call = NoCall
  /\ prevCall = Summary(NoCall)
  /\ events = << >>
  /\ calls = 0
  /\ faults = 0

Init == ScraperIdle /\ ValidatorOff /\ ParserOff

comp == competitions[i]

\* scrapeCompetitions(competitions, {force}): useCache keeps its default.
StartScrapeCompetitions ==
  /\ UNCHANGED pureVars
  /\ pc = "idle"
  /\ \E list \in CompLists, force \in BOOLEAN :
       /\ calls + Len(list) <= MaxCalls
       /\ calls' = calls + Len(list)
       /\ competitions' = list
       /\ options' = [force |-> force, useCache |-> TRUE]
  /\ entry' = "scrapeCompetitions"
  /\ i' = 1
  /\ results' = << >>
  /\ events' = << >>
  /\ pc' = "fetch"
  /\ UNCHANGED <<files, call, prevCall, faults>>

\* A direct call of scrapeCompetition(competition, {force, useCache}).
StartScrapeCompetition ==
  /\ UNCHANGED pureVars
  /\ pc = "idle"
  /\ calls < MaxCalls
  /\ calls' = calls + 1
  /\ \E id \in Ids, force \in BOOLEAN, useCache \in BOOLEAN :
       /\ competitions' = <<id>>
       /\ options' = [force |-> force, useCache |-> useCache]
  /\ entry' = "scrapeCompetition"
  /\ i' = 1
  /\ results' = << >>
  /\ events' = << >>
  /\ pc' = "fetch"
  /\ UNCHANGED <<files, call, prevCall, faults>>

\* Where the loop of scrapeCompetitions goes after competition i: the rate
\* limit delay unless it was the last one.  A direct call just ends.
AfterCompetition ==
  IF entry = "scrapeCompetitions" /\ i < Len(competitions)
  THEN "delay" ELSE "done"

Event(ev, ok, groups) == [ev |-> ev, i |-> i, ok |-> ok, groups |-> groups]

\* The call that starts: the summary of the one before it is kept.
Shift == IF call.status \in {"returned", "threw"} THEN Summary(call)
         ELSE prevCall

NewCall ==
  [NoCall EXCEPT !.id = comp, !.force = options.force,
                 !.useCache = options.useCache]

\* A loop that lets the error of a competition end the run.
FetchFailsAborts ==
  /\ UNCHANGED pureVars
  /\ pc = "fetch"
  /\ call' = [NewCall EXCEPT !.status = "threw"]
  /\ prevCall' = Shift
  /\ events' = events \o << Event("fetch", TRUE, << >>),
                            Event("end", FALSE, << >>) >>
  /\ pc' = "done"
  /\ UNCHANGED <<files, run, i, results, faults>>

\* A loop whose catch continues with the next competition at once.
FetchFailsNoDelay ==
  /\ UNCHANGED pureVars
  /\ pc = "fetch"
  /\ call' = [NewCall EXCEPT !.status = "threw"]
  /\ prevCall' = Shift
  /\ events' = events \o << Event("fetch", TRUE, << >>),
                            Event("end", FALSE, << >>) >>
  /\ IF AfterCompetition = "delay"
     THEN pc' = "fetch" /\ i' = i + 1
     ELSE pc' = "done" /\ i' = i
  /\ UNCHANGED <<files, run, results, faults>>

\* fetch(competition.url) fails or answers not ok: scrapeCompetition
\* throws; the catch of scrapeCompetitions reports it and goes on.
FetchFails ==
  /\ UNCHANGED pureVars
  /\ pc = "fetch"
  /\ call' = [NewCall EXCEPT !.status = "threw"]
  /\ prevCall' = Shift
  /\ events' = events \o << Event("fetch", TRUE, << >>),
                            Event("end", FALSE, << >>) >>
  /\ pc' = AfterCompetition
  /\ UNCHANGED <<files, run, i, results, faults>>

\* The page arrives; extractCompetitionTables runs on it.  When it throws,
\* the catch of scrapeCompetition hands the full page to the parser.
Fetch ==
  /\ UNCHANGED pureVars
  /\ pc = "fetch"
  /\ \E html \in Pages :
       LET c0 == [NewCall EXCEPT !.html = html, !.status = "running"]
       IN IF extractThrows(html)
          THEN /\ call' = [c0 EXCEPT !.tableHtml = html, !.failed = TRUE]
               /\ pc' = "parse"
          ELSE /\ call' = [c0 EXCEPT
                             !.tableHtml = extractCompetitionTables(html),
                             !.extracted = extractCompetitionTables(html)]
               /\ pc' = IF options.useCache /\ ~options.force
                        THEN "shouldScrape" ELSE "mkdir"
  /\ prevCall' = Shift
  /\ events' = Append(events, Event("fetch", TRUE, << >>))
  /\ UNCHANGED <<files, run, i, results, faults>>

\* shouldScrape(id, tableHtml): reads the hash file, decides.
ShouldScrapeCheck ==
  /\ UNCHANGED pureVars
  /\ pc = "shouldScrape"
  /\ \E readOk \in BOOLEAN :
       /\ readOk \/ (hashFile[call.id].exists /\ faults < MaxFaults)
       /\ faults' = IF readOk THEN faults ELSE faults + 1
       /\ LET cachedHash == readOrNull(hashFile[call.id], readOk)
              decision == shouldScrape(cachedHash, call.tableHtml)
          IN /\ call' = [call EXCEPT !.reason = decision.reason,
                                     !.failed = ~readOk]
             /\ pc' = IF decision.shouldScrape THEN "mkdir"
                      ELSE "readHtmlCache"
  /\ UNCHANGED <<files, run, i, results, prevCall, events>>

\* readHtmlCache(id) after an "unchanged" decision.
ReadHtmlCache ==
  /\ UNCHANGED pureVars
  /\ pc = "readHtmlCache"
  /\ \E readOk \in BOOLEAN :
       /\ readOk \/ (htmlFile[call.id].exists /\ faults < MaxFaults)
       /\ faults' = IF readOk THEN faults ELSE faults + 1
       /\ LET cachedHtml == readOrNull(htmlFile[call.id], readOk)
          IN IF cachedHtml # Null
             THEN /\ call' = [call EXCEPT !.tableHtml = cachedHtml,
                                          !.skipped = TRUE,
                                          !.usedCache = TRUE]
                  /\ pc' = "parse"
             ELSE /\ call' = [call EXCEPT !.failed = call.failed \/ ~readOk]
                  /\ pc' = "mkdir"
  /\ UNCHANGED <<files, run, i, results, prevCall, events>>

\* A file cut short holds a prefix of its text.
Truncate(d) == SubSeq(d, 1, Len(d) - 1)

\* A temporary file left behind by a call.  No code reads a temporary file
\* it has not just written, so what it holds is left open.
Leftover == FileOf(<< >>)

LeftBehind(temp, id) ==
  [temp EXCEPT ![id] = IF @.exists THEN Leftover ELSE @]

\* The catch of scrapeCompetition: "Cache error, parsing full HTML".
CacheError == [call EXCEPT !.tableHtml = call.html, !.failed = TRUE]

\* writeHtmlCache: mkdir(HTML_CACHE_DIR) when it does not exist.
Mkdir ==
  /\ UNCHANGED pureVars
  /\ pc = "mkdir"
  /\ cacheDir' = TRUE
  /\ pc' = "writeHtmlTemp"
  /\ UNCHANGED <<htmlFile, hashFile, htmlTemp, hashTemp, run, i, results,
                 call, prevCall, events, faults>>

\* mkdir throws, outside the try of writeHtmlCache: no cleanup.
MkdirFails ==
  /\ UNCHANGED pureVars
  /\ pc = "mkdir"
  /\ ~cacheDir
  /\ faults < MaxFaults
  /\ faults' = faults + 1
  /\ call' = CacheError
  /\ pc' = "parse"
  /\ UNCHANGED <<files, run, i, results, prevCall, events>>

WriteHtmlTemp ==
  /\ UNCHANGED pureVars
  /\ pc = "writeHtmlTemp"
  /\ htmlTemp' = [htmlTemp EXCEPT ![call.id] = FileOf(call.tableHtml)]
  /\ pc' = "writeHashTemp"
  /\ UNCHANGED <<cacheDir, htmlFile, hashFile, hashTemp, run, i, results,
                 call, prevCall, events, faults>>

\* A write that hashes the page instead of the fragment.
WriteHashTempOfPage ==
  /\ UNCHANGED pureVars
  /\ pc = "writeHashTemp"
  /\ hashTemp' = [hashTemp EXCEPT
                    ![call.id] = FileOf(computeHash(call.html))]
  /\ pc' = "renameHtml"
  /\ UNCHANGED <<cacheDir, htmlFile, hashFile, htmlTemp, run, i, results,
                 call, prevCall, events, faults>>

WriteHashTemp ==
  /\ UNCHANGED pureVars
  /\ pc = "writeHashTemp"
  /\ hashTemp' = [hashTemp EXCEPT
                    ![call.id] = FileOf(computeHash(call.tableHtml))]
  /\ pc' = "renameHtml"
  /\ UNCHANGED <<cacheDir, htmlFile, hashFile, htmlTemp, run, i, results,
                 call, prevCall, events, faults>>

RenameHtml ==
  /\ UNCHANGED pureVars
  /\ pc = "renameHtml"
  /\ htmlFile' = [htmlFile EXCEPT ![call.id] = htmlTemp[call.id]]
  /\ htmlTemp' = [htmlTemp EXCEPT ![call.id] = NoFile]
  /\ call' = [call EXCEPT !.wrote = TRUE]
  /\ pc' = "renameHash"
  /\ UNCHANGED <<cacheDir, hashFile, hashTemp, run, i, results, prevCall,
                 events, faults>>

RenameHash ==
  /\ UNCHANGED pureVars
  /\ pc = "renameHash"
  /\ hashFile' = [hashFile EXCEPT ![call.id] = hashTemp[call.id]]
  /\ hashTemp' = [hashTemp EXCEPT ![call.id] = NoFile]
  /\ call' = [call EXCEPT !.wrote = TRUE]
  /\ pc' = "parse"
  /\ UNCHANGED <<cacheDir, htmlFile, htmlTemp, run, i, results, prevCall,
                 events, faults>>

\* What a failing step of the try block leaves behind before the catch.
\* A failed writeFile may have created the temporary file.
AfterFailedStep(step, temp) ==
  IF pc = step THEN {temp, [temp EXCEPT ![call.id] = Leftover]}
  ELSE {temp}

\* The cleanup of the catch: unlink the temporary files that exist; an
\* error of the cleanup is ignored.
Unlinked(temp, doIt) == IF doIt THEN [temp EXCEPT ![call.id] = NoFile] ELSE temp

\* A step of the try block of writeHtmlCache throws: cleanup (n unlinks
\* succeed; a failing unlink is one more failure), rethrow, and the catch
\* of scrapeCompetition takes over.
WriteFails ==
  /\ UNCHANGED pureVars
  /\ pc \in {"writeHtmlTemp", "writeHashTemp", "renameHtml", "renameHash"}
  /\ faults < MaxFaults
  /\ \E ht \in AfterFailedStep("writeHtmlTemp", htmlTemp),
        st \in AfterFailedStep("writeHashTemp", hashTemp),
        n \in 0..2 :
       /\ n < 2 => faults + 1 < MaxFaults
       /\ faults' = IF n < 2 THEN faults + 2 ELSE faults + 1
       /\ htmlTemp' = LeftBehind(Unlinked(ht, n >= 1), call.id)
       /\ hashTemp' = LeftBehind(Unlinked(st, n >= 2), call.id)
  /\ call' = CacheError
  /\ pc' = "parse"
  /\ UNCHANGED <<cacheDir, htmlFile, hashFile, run, i, results, prevCall,
                 events>>

\* The metadata scrapeCompetition attaches to every group.
metadata(c) ==
  [ competitionId |-> c.id, skipped |-> c.skipped, cached |-> c.usedCache,
    hashMatch |-> c.skipped ]

withMetadata(groups, c) ==
  [k \in 1..Len(groups) |->
     [ competition |-> groups[k].competition, lifters |-> groups[k].lifters,
       metadata |-> metadata(c) ]]

\* parseCompetitionPage(tableHtml, competition), metadata, return; in
\* scrapeCompetitions the groups are pushed onto results.
Parse ==
  /\ UNCHANGED pureVars
  /\ pc = "parse"
  /\ LET result == withMetadata(parseCompetitionPage(call.tableHtml, call.id),
                                call)
     IN /\ call' = [call EXCEPT !.result = result, !.status = "returned"]
        /\ results' = IF entry = "scrapeCompetitions" THEN results \o result
                      ELSE results
        /\ events' = Append(events, Event("end", TRUE, result))
  /\ pc' = AfterCompetition
  /\ UNCHANGED <<files, run, i, prevCall, faults>>

\* The rate limit between two competitions.
Delay ==
  /\ UNCHANGED pureVars
  /\ pc = "delay"
  /\ events' = Append(events, Event("delay", TRUE, << >>))
  /\ i' = i + 1
  /\ pc' = "fetch"
  /\ UNCHANGED <<files, run, results, call, prevCall, faults>>

\* The run returns to its caller.
Return ==
  /\ UNCHANGED pureVars
  /\ pc = "done"
  /\ pc' = "idle"
  /\ prevCall' = Summary(call)
  /\ call' = NoCall
  /\ entry' = ""
  /\ competitions' = << >>
  /\ options' = [force |-> FALSE, useCache |-> TRUE]
  /\ i' = 0
  /\ results' = << >>
  /\ events' = << >>
  /\ UNCHANGED <<files, calls, faults>>

\* The process is interrupted: its locals are lost, the files stay.  An
\* interrupted writeFile may have created the temporary file.
Crash ==
  /\ UNCHANGED pureVars
  /\ pc \notin {"idle", "done"}
  /\ faults < MaxFaults
  /\ faults' = faults + 1
  /\ \E ht \in AfterFailedStep("writeHtmlTemp", htmlTemp),
        st \in AfterFailedStep("writeHashTemp", hashTemp) :
       /\ htmlTemp' = IF call.id \in Ids THEN LeftBehind(ht, call.id) ELSE ht
       /\ hashTemp' = IF call.id \in Ids THEN LeftBehind(st, call.id) ELSE st
  /\ pc' = "idle"
  /\ call' = NoCall
  /\ prevCall' = Summary(NoCall)
  /\ entry' = ""
  /\ competitions' = << >>
  /\ options' = [force |-> FALSE, useCache |-> TRUE]
  /\ i' = 0
  /\ results' = << >>
  /\ events' = << >>
  /\ UNCHANGED <<cacheDir, htmlFile, hashFile, calls>>

\* Outside the program: the hash file of an id gets corrupted (emptied or
\* cut short) between two runs.
CorruptHashFile ==
  /\ UNCHANGED pureVars
  /\ pc = "idle"
  /\ faults < MaxFaults
  /\ faults' = faults + 1
  /\ \E id \in Ids :
       /\ hashFile[id].exists
       /\ \E d \in {<< >>, Truncate(hashFile[id].data)} :
            hashFile' = [hashFile EXCEPT ![id] = FileOf(d)]
  /\ UNCHANGED <<cacheDir, htmlFile, htmlTemp, hashTemp, pc, run, i, results,
                 call, prevCall, events>>

Next ==
  \/ StartScrapeCompetitions
  \/ StartScrapeCompetition
  \/ FetchFails
  \/ Fetch
  \/ ShouldScrapeCheck
  \/ ReadHtmlCache
  \/ Mkdir
  \/ MkdirFails
  \/ WriteHtmlTemp
  \/ WriteHashTemp
  \/ RenameHtml
  \/ RenameHash
  \/ WriteFails
  \/ Parse
  \/ Delay
  \/ Return
  \/ Crash

Spec == Init /\ [][Next]_vars

\* The same program on a disk whose hash files can get corrupted.
NextEnv == Next \/ CorruptHashFile

SpecEnv == Init /\ [][NextEnv]_vars

TypeOK ==
  /\ pc \in {"idle", "fetch", "shouldScrape", "readHtmlCache", "mkdir",
             "writeHtmlTemp", "writeHashTemp", "renameHtml", "renameHash",
             "parse", "delay", "done"}
  /\ faults \in 0..MaxFaults
  /\ calls \in 0..MaxCalls

\* ------------------------------------------------------------ properties
\* The fragments extractCompetitionTables can return.
Fragments ==
  { extractCompetitionTables(p) : p \in {q \in Pages : ~extractThrows(q)} }

Completed == call.status \in {"returned", "threw"}

\* C1: at every point where a run reads the cache (and between runs), the
\* hash stored for an id is the hash of the fragment stored for it, whatever
\* step of writeHtmlCache failed or was interrupted before.
C1_PairCrashSafe ==
  pc \in {"idle", "shouldScrape", "readHtmlCache"} =>
    \A id \in Ids :
       hashFile[id].exists =>
         /\ htmlFile[id].exists
         /\ hashFile[id].data = computeHash(htmlFile[id].data)

\* C2: a call that follows a call for the same id which extracted the same
\* fragment (both with caching enabled, force off and no failed step) decides
\* "unchanged", is flagged skipped and cached, and parses a fragment equal to
\* the one of the first call.
C2_IdempotentCaching ==
  ( /\ call.status = "returned"
    /\ Clean(call)
    /\ prevCall.clean
    /\ prevCall.id = call.id
    /\ prevCall.extracted = call.extracted )
  => /\ call.reason = "unchanged"
     /\ call.skipped
     /\ call.usedCache
     /\ call.tableHtml = prevCall.extracted

\* C3: shouldScrape answers "no cache" when no hash is stored for the id (no
\* file, or an empty one), "content changed" when the stored hash is read and
\* differs from the hash of the fragment, "unchanged" only when the stored
\* hash is the hash of the fragment, in which case every other fragment
\* would be reported changed; it leaves the files alone.
C3_ShouldScrapeDecision ==
  [][ (pc = "shouldScrape" /\ pc' \in {"mkdir", "readHtmlCache"}) =>
        LET stored == hashFile[call.id]
            newHash == computeHash(call.tableHtml)
            readOk == faults' = faults
            reason == call'.reason
        IN /\ (~stored.exists \/ stored.data = << >>) => reason = "no cache"
           /\ (stored.exists /\ readOk /\ stored.data # << >>
                 /\ stored.data # newHash) => reason = "content changed"
           /\ (stored.exists /\ readOk /\ stored.data = newHash)
                 => reason = "unchanged"
           /\ reason = "unchanged" => stored.exists /\ stored.data = newHash
           /\ reason = "unchanged" =>
                \A f \in Fragments \ {call.tableHtml} :
                   shouldScrapeReason(stored.data, f) = "content changed"
           /\ (reason = "unchanged") <=> (pc' = "readHtmlCache")
           /\ UNCHANGED files ]_vars

C3_Witness ==
  /\ pc = "mkdir"
  /\ call.reason = "content changed"
  /\ hashFile[call.id].exists

\* C4: a call whose page has no result table ends with an error, returns no
\* result group and writes nothing to the cache entry of the id.
C4_NoResultTableFails ==
  (Completed /\ call.html # << >> /\ extractThrows(call.html)) =>
     /\ call.status = "threw"
     /\ call.result = << >>
     /\ ~call.wrote

\* C5: a call is flagged skipped only if the stored hash was read, equals
\* the hash of the fresh fragment, and the cached fragment was read; after a
\* failed step or any other decision the call is not skipped and parses the
\* fresh fragment or the fresh page.
C5_CacheFailuresDegradeToScrape ==
  (pc \in {"parse", "delay", "done"} /\ call.status \in {"running", "returned"})
  => /\ call.skipped =>
          /\ ~call.failed
          /\ call.reason = "unchanged"
          /\ hashFile[call.id].exists
          /\ hashFile[call.id].data = computeHash(call.extracted)
          /\ htmlFile[call.id].exists
          /\ call.tableHtml = htmlFile[call.id].data
     /\ (call.failed \/ call.reason # "unchanged") => ~call.skipped
     /\ ~call.skipped =>
          /\ call.tableHtml # << >>
          /\ call.tableHtml \in {call.extracted, call.html}
     /\ call.status = "returned" =>
          \A g \in 1..Len(call.result) :
             call.result[g].metadata.skipped = call.skipped

C5_Witness ==
  /\ call.status = "returned"
  /\ call.failed
  /\ call.reason = "no cache"
  /\ ~call.skipped
  /\ call.tableHtml = call.extracted

\* C6 as stated: the hash file of an id changes only in a call whose parse
\* has already succeeded.
C6_PersistOnlyAfterParse ==
  [][ hashFile' # hashFile => call.status = "returned" ]_vars

\* C6 amended: the hash file of an id changes only in the second rename of
\* writeHtmlCache, before the parse of that call, and what is written is the
\* hash of the fragment the call extracted.
C6_PersistBeforeParse ==
  [][ hashFile' # hashFile =>
        /\ pc = "renameHash"
        /\ pc' = "parse"
        /\ call.status = "running"
        /\ call.extracted # << >>
        /\ hashFile' = [hashFile EXCEPT
                          ![call.id] = FileOf(computeHash(call.extracted))] ]_vars

C6_Witness ==
  /\ pc = "parse"
  /\ call.status = "running"
  /\ call.wrote
  /\ hashFile[call.id] = FileOf(computeHash(call.tableHtml))

\* C7: after a call that returned (no step of it failed), the cache entry
\* of the id is the fragment the call parsed and the hash of that fragment.
C7_CacheHoldsParsedFragment ==
  (call.status = "returned" /\ ~call.failed) =>
     /\ htmlFile[call.id] = FileOf(call.tableHtml)
     /\ hashFile[call.id] = FileOf(computeHash(call.tableHtml))

Ends == SelectSeq(events, LAMBDA e : e.ev = "end")

RECURSIVE ConcatGroups(_)
ConcatGroups(es) ==
  IF Len(es) = 0 THEN << >> ELSE Head(es).groups \o ConcatGroups(Tail(es))

\* C8: when scrapeCompetitions ends, every competition of the list has been
\* processed once, in order; a failed one gave no group, a successful one
\* gave groups of its own id, and results is their concatenation in order.
C8_FailuresIsolated ==
  (pc = "done" /\ entry = "scrapeCompetitions") =>
     /\ Len(Ends) = Len(competitions)
     /\ \A k \in 1..Len(Ends) :
          /\ Ends[k].i = k
          /\ ~Ends[k].ok => Ends[k].groups = << >>
          /\ Ends[k].ok =>
               /\ Ends[k].groups # << >>
               /\ \A g \in 1..Len(Ends[k].groups) :
                    Ends[k].groups[g].metadata.competitionId = competitions[k]
     /\ results = ConcatGroups(Ends)

C8_Witness ==
  /\ pc = "done"
  /\ entry = "scrapeCompetitions"
  /\ Len(competitions) = 2
  /\ Len(Ends) = 2
  /\ ~Ends[1].ok
  /\ Ends[2].ok
  /\ results # << >>

EventKind(k) ==
  CASE k % 3 = 1 -> "fetch"
    [] k % 3 = 2 -> "end"
    [] OTHER -> "delay"

\* C9: the events of a run of scrapeCompetitions are fetch 1, end 1, delay,
\* fetch 2, end 2, delay, ... : a fetch starts only after the competition
\* before it has ended and the delay has run, the delay follows every
\* competition but the last, failed or not, and the cache of an id is only
\* touched between the fetch and the end of the competition being processed.
C9_SequentialWithDelay ==
  entry = "scrapeCompetitions" =>
     /\ \A k \in 1..Len(events) :
          /\ events[k].ev = EventKind(k)
          /\ events[k].i = (k + 2) \div 3
     /\ pc = "fetch" => Len(events) = 3 * (i - 1)
     /\ pc = "delay" => Len(events) = 3 * i - 1 /\ i < Len(competitions)
     /\ pc = "done" => Len(events) = 3 * Len(competitions) - 1
     /\ pc \in {"shouldScrape", "readHtmlCache", "mkdir", "writeHtmlTemp",
                "writeHashTemp", "renameHtml", "renameHash", "parse"} =>
          /\ Len(events) = 3 * i - 2
          /\ call.id = competitions[i]

C9_Witness ==
  /\ pc = "done"
  /\ entry = "scrapeCompetitions"
  /\ Len(events) = 5
  /\ ~events[2].ok
  /\ events[3].ev = "delay"
  /\ events[5].ok

\* C10: every result group a call returns carries a validation summary in
\* its metadata.
C10_ValidationAttached ==
  /\ call.status = "returned" =>
       \A g \in 1..Len(call.result) :
          "validation" \in DOMAIN call.result[g].metadata
  /\ \A g \in 1..Len(results) : "validation" \in DOMAIN results[g].metadata

\* C11: a forced call that returned did not consult the decision, is not
\* flagged skipped or cached, parsed the fragment extracted from its page,
\* and left that fragment and its hash as the cache entry of the id.
C11_ForceBypassesGate ==
  (call.status = "returned" /\ call.force) =>
     /\ call.reason = ""
     /\ ~call.skipped
     /\ ~call.usedCache
     /\ \A g \in 1..Len(call.result) :
          /\ ~call.result[g].metadata.skipped
          /\ ~call.result[g].metadata.cached
     /\ call.tableHtml = extractCompetitionTables(call.html)
     /\ htmlFile[call.id] = FileOf(call.tableHtml)
     /\ hashFile[call.id] = FileOf(computeHash(call.tableHtml))

\* ------------------------------------------------- src/cli/validate.ts
MaxLifters == 2     \* most lifters of a competition handed to the validator

\* An attempt is [weight, success]; a lift is three attempts.
Attempt(w, ok) == [weight |-> w, success |-> ok]

NoAttempt == Attempt(0, FALSE)

\* The attempts the parser can produce: no attempt, or a positive weight
\* that succeeded or failed.
AttemptWeights == {10, 100}

Attempts ==
  {NoAttempt} \cup {Attempt(w, ok) : w \in AttemptWeights, ok \in BOOLEAN}

Triples == {<<a, b, c>> : a \in Attempts, b \in Attempts, c \in Attempts}

NoLift == <<NoAttempt, NoAttempt, NoAttempt>>

FewTriples ==
  { NoLift,
    <<Attempt(150, TRUE), Attempt(155, FALSE), NoAttempt>>,
    <<Attempt(170, TRUE), Attempt(180, TRUE), Attempt(510, FALSE)>> }

Lifter(name, club, squat, bench, deadlift, total, bodyWeight) ==
  [ name |-> name, club |-> club, squat |-> squat, bench |-> bench,
    deadlift |-> deadlift, total |-> total, bodyWeight |-> bodyWeight ]

Totals == {0, 100, 425, 430}

\* Lifters in which one lift runs over every triple of attempts.
VariedLifters ==
  { Lifter("anna", "tvk", sq, be, dl, t, 85) :
      sq \in Triples, be \in FewTriples, dl \in FewTriples, t \in Totals }
  \cup
  { Lifter("anna", "tvk", sq, be, dl, t, 85) :
      sq \in FewTriples, be \in Triples, dl \in FewTriples, t \in Totals }
  \cup
  { Lifter("anna", "tvk", sq, be, dl, t, 85) :
      sq \in FewTriples, be \in FewTriples, dl \in Triples, t \in Totals }

\* Lifters in which the body weight and the texts vary.
OtherLifters ==
  { Lifter(n, c, sq, NoLift, sq, 0, bw) :
      n \in {"anna", "", " "}, c \in {"tvk", "", " "},
      sq \in FewTriples, bw \in {0, 15, 29, 30, 85, 200, 201} }

\* Lifts with attempts of 95 and 105 kg, and of 19, 20, 500 and 501 kg.
ProgressionLifters ==
  { Lifter("anna", "tvk", NoLift, be, NoLift, 0, 85) :
      be \in { <<Attempt(100, TRUE), Attempt(95, TRUE), Attempt(110, TRUE)>>,
               <<Attempt(100, TRUE), Attempt(105, TRUE), Attempt(110, TRUE)>>,
               <<Attempt(100, TRUE), Attempt(95, FALSE), Attempt(110, TRUE)>>,
               <<Attempt(19, TRUE), Attempt(20, TRUE), Attempt(500, TRUE)>>,
               <<Attempt(20, FALSE), Attempt(500, TRUE), Attempt(501, FALSE)>> } }

LifterInputs == VariedLifters \cup OtherLifters \cup ProgressionLifters

\* The lifters of the competitions with several lifters.
SomeLifters ==
  { Lifter("anna", "tvk", NoLift,
           <<Attempt(100, TRUE), Attempt(110, FALSE), NoAttempt>>, NoLift,
           100, 85),
    Lifter("bea", "tvk", <<Attempt(150, TRUE), Attempt(155, FALSE), NoAttempt>>,
           <<Attempt(100, TRUE), Attempt(10, TRUE), NoAttempt>>,
           <<Attempt(170, TRUE), Attempt(180, TRUE), Attempt(510, FALSE)>>,
           425, 85),
    Lifter("cia", "", NoLift, NoLift, NoLift, 0, 15) }

EventTypes == {"sbd", "b", ""}

CompetitionResults ==
  { [competition |-> [id |-> "c1", eventType |-> et], lifters |-> <<l>>] :
      l \in LifterInputs, et \in {"sbd", "b"} }
  \cup
  { [competition |-> [id |-> "c1", eventType |-> et], lifters |-> ls] :
      ls \in UNION { [1..n -> SomeLifters] : n \in 0..MaxLifters },
      et \in EventTypes }

Max(S) == CHOOSE m \in S : \A x \in S : x <= m

\* A best lift that also counts failed attempts.
getBestLiftOfAllAttempts(attempts) ==
  Max({attempts[k].weight : k \in 1..3} \cup {0})

\* getBestLift: Math.max(...weights of the successful attempts, 0).
getBestLift(attempts) ==
  Max({attempts[k].weight : k \in {j \in 1..3 : attempts[j].success}}
      \cup {0})

\* A warning without its message (a text formatted from the details).
Warning(rule, lifterName, details) ==
  [ severity |-> "warning", rule |-> rule, lifterName |-> lifterName,
    details |-> details ]

\* validateTotalCalculation: the warning or null, as a list of at most one.
validateTotalCalculation(lifter, eventType) ==
  LET bestSquat == IF eventType = "sbd" THEN getBestLift(lifter.squat) ELSE 0
      bestBench == getBestLift(lifter.bench)
      bestDeadlift == IF eventType = "sbd" THEN getBestLift(lifter.deadlift)
                      ELSE 0
      calculated == bestSquat + bestBench + bestDeadlift
  IN IF lifter.total = 0 THEN << >>
     ELSE IF calculated # lifter.total
     THEN << Warning("total_calculation", lifter.name,
               IF eventType = "b"
               THEN [calculated |-> calculated, recorded |-> lifter.total,
                     eventType |-> eventType]
               ELSE [calculated |-> calculated, recorded |-> lifter.total,
                     eventType |-> eventType, bestSquat |-> bestSquat,
                     bestBench |-> bestBench,
                     bestDeadlift |-> bestDeadlift]) >>
     ELSE << >>

\* !text || text.trim() === ""
IsBlank(text) == text \in {"", " "}

validateDataCompleteness(lifter) ==
  (IF IsBlank(lifter.name)
   THEN << Warning("data_completeness",
                   IF lifter.name = "" THEN "(empty)" ELSE lifter.name,
                   [field |-> "name"]) >>
   ELSE << >>)
  \o
  (IF IsBlank(lifter.club)
   THEN << Warning("data_completeness", lifter.name, [field |-> "club"]) >>
   ELSE << >>)

\* A weight loop that has no set of seen weights.
RECURSIVE weightWarningsOfEveryAttempt(_, _, _)
weightWarningsOfEveryAttempt(allAttempts, seenWeights, lifterName) ==
  IF Len(allAttempts) = 0 THEN << >>
  ELSE LET w == Head(allAttempts).weight
       IN IF w > 0
          THEN (IF w < 20 \/ w > 500
                THEN << Warning("reasonable_ranges", lifterName,
                          [weight |-> w, min |-> 20, max |-> 500]) >>
                ELSE << >>)
               \o weightWarningsOfEveryAttempt(Tail(allAttempts),
                                               seenWeights, lifterName)
          ELSE weightWarningsOfEveryAttempt(Tail(allAttempts), seenWeights,
                                            lifterName)

\* The loop of validateReasonableRanges over the nine attempts.
RECURSIVE weightWarnings(_, _, _)
weightWarnings(allAttempts, seenWeights, lifterName) ==
  IF Len(allAttempts) = 0 THEN << >>
  ELSE LET w == Head(allAttempts).weight
       IN IF w > 0 /\ w \notin seenWeights
          THEN (IF w < 20 \/ w > 500
                THEN << Warning("reasonable_ranges", lifterName,
                          [weight |-> w, min |-> 20, max |-> 500]) >>
                ELSE << >>)
               \o weightWarnings(Tail(allAttempts), seenWeights \cup {w},
                                 lifterName)
          ELSE weightWarnings(Tail(allAttempts), seenWeights, lifterName)

validateReasonableRanges(lifter) ==
  weightWarnings(lifter.squat \o lifter.bench \o lifter.deadlift, {},
                 lifter.name)
  \o
  (IF lifter.bodyWeight > 0
      /\ (lifter.bodyWeight < 30 \/ lifter.bodyWeight > 200)
   THEN << Warning("reasonable_ranges", lifter.name,
             [bodyWeight |-> lifter.bodyWeight, min |-> 30, max |-> 200]) >>
   ELSE << >>)

\* The attempts kept by the filter of checkLiftProgression, numbered.
successfulAttempts(attempts) ==
  SelectSeq([k \in 1..3 |-> [weight |-> attempts[k].weight,
                             success |-> attempts[k].success,
                             attemptNum |-> k]],
            LAMBDA a : a.success /\ a.weight > 0)

\* A progression check that compares all attempts, failed ones too.
checkLiftProgressionOfAllAttempts(attempts, liftName, lifterName) ==
  LET all == [k \in 1..3 |-> [weight |-> attempts[k].weight,
                              success |-> attempts[k].success,
                              attemptNum |-> k]]
      bad == SelectSeq([k \in 1..2 |-> k],
                       LAMBDA k : all[k + 1].weight < all[k].weight)
  IN [n \in 1..Len(bad) |->
        Warning("attempt_progression", lifterName,
          [lift |-> liftName, attempt1 |-> all[bad[n]].attemptNum,
           weight1 |-> all[bad[n]].weight,
           attempt2 |-> all[bad[n] + 1].attemptNum,
           weight2 |-> all[bad[n] + 1].weight])]

\* checkLiftProgression: consecutive successful attempts are compared.
checkLiftProgression(attempts, liftName, lifterName) ==
  LET kept == successfulAttempts(attempts)
      bad == SelectSeq([k \in 1..(Len(kept) - 1) |-> k],
                       LAMBDA k : kept[k + 1].weight < kept[k].weight)
  IN [n \in 1..Len(bad) |->
        Warning("attempt_progression", lifterName,
          [lift |-> liftName, attempt1 |-> kept[bad[n]].attemptNum,
           weight1 |-> kept[bad[n]].weight,
           attempt2 |-> kept[bad[n] + 1].attemptNum,
           weight2 |-> kept[bad[n] + 1].weight])]

validateAttemptProgression(lifter) ==
  checkLiftProgression(lifter.squat, "Squat", lifter.name)
  \o checkLiftProgression(lifter.bench, "Bench", lifter.name)
  \o checkLiftProgression(lifter.deadlift, "Deadlift", lifter.name)

\* warning.competitionId = competitionId
WithCompetitionId(ws, competitionId) ==
  [k \in 1..Len(ws) |->
     [ severity |-> ws[k].severity, rule |-> ws[k].rule,
       lifterName |-> ws[k].lifterName, details |-> ws[k].details,
       competitionId |-> competitionId ]]

validateLifter(lifter, competitionId, eventType) ==
  WithCompetitionId(
    validateTotalCalculation(lifter, eventType)
    \o validateDataCompleteness(lifter)
    \o validateReasonableRanges(lifter)
    \o validateAttemptProgression(lifter),
    competitionId)

\* result.competition.eventType || "sbd"
eventTypeOf(res) ==
  IF res.competition.eventType = "" THEN "sbd" ELSE res.competition.eventType

\* validateCompetitionResult(result) is called.
InitValidate ==
  /\ ScraperIdle
  /\ ParserOff
  /\ validated \in CompetitionResults
  /\ vpc = "loop"
  /\ lifterIdx = 1
  /\ warnings = << >>
  /\ liftersWithWarnings = 0
  /\ lifterWarnings = << >>
  /\ summary = << >>

\* A loop that counts every lifter as one with warnings.
ValidateLifterCountsAll ==
  /\ vpc = "loop"
  /\ lifterIdx <= Len(validated.lifters)
  /\ LET ws == validateLifter(validated.lifters[lifterIdx],
                              validated.competition.id,
                              eventTypeOf(validated))
     IN /\ lifterWarnings' = Append(lifterWarnings, ws)
        /\ liftersWithWarnings' = liftersWithWarnings + 1
        /\ warnings' = warnings \o ws
  /\ lifterIdx' = lifterIdx + 1
  /\ UNCHANGED <<vpc, validated, summary, scraperVars, parserVars>>

\* One turn of the loop over result.lifters.
ValidateLifter ==
  /\ vpc = "loop"
  /\ lifterIdx <= Len(validated.lifters)
  /\ LET ws == validateLifter(validated.lifters[lifterIdx],
                              validated.competition.id,
                              eventTypeOf(validated))
     IN /\ lifterWarnings' = Append(lifterWarnings, ws)
        /\ liftersWithWarnings' = IF Len(ws) > 0 THEN liftersWithWarnings + 1
                                  ELSE liftersWithWarnings
        /\ warnings' = warnings \o ws
  /\ lifterIdx' = lifterIdx + 1
  /\ UNCHANGED <<vpc, validated, summary, scraperVars, parserVars>>

\* warningsByRule: the number of warnings of each rule that occurs.
warningsByRule(ws) ==
  [ r \in {ws[k].rule : k \in 1..Len(ws)} |->
      Cardinality({k \in 1..Len(ws) : ws[k].rule = r}) ]

\* After the loop: count by rule and return the summary.
ReturnSummary ==
  /\ vpc = "loop"
  /\ lifterIdx > Len(validated.lifters)
  /\ summary' = [ totalLifters |-> Len(validated.lifters),
                  liftersWithWarnings |-> liftersWithWarnings,
                  warningsByRule |-> warningsByRule(warnings),
                  allWarnings |-> warnings ]
  /\ vpc' = "done"
  /\ UNCHANGED <<validated, lifterIdx, warnings, liftersWithWarnings,
                 lifterWarnings, scraperVars, parserVars>>

NextValidate ==
  \/ ValidateLifter
  \/ ReturnSummary

SpecValidate == InitValidate /\ [][NextValidate]_vars

\* ------------------------------------------- properties of the validator
\* The lifters the loop has gone through.
Validated == 1..Len(lifterWarnings)

OfRule(ws, rule) == SelectSeq(ws, LAMBDA w : w.rule = rule)

\* The largest weight among the successful attempts of a lift, 0 when none
\* succeeded.
BestSuccessful(attempts) ==
  LET ok == {attempts[k].weight : k \in {j \in 1..3 : attempts[j].success}}
  IN IF ok = {} THEN 0 ELSE Max(ok)

ExpectedTotal(lifter, eventType) ==
  IF eventType = "b" THEN BestSuccessful(lifter.bench)
  ELSE BestSuccessful(lifter.squat) + BestSuccessful(lifter.bench)
       + BestSuccessful(lifter.deadlift)

\* C14: a lifter whose recorded total is 0 gets no total_calculation
\* warning; any other lifter gets exactly one if its total differs from the
\* sum of the best successful attempts of the applicable lifts (all three
\* for sbd, bench only for b) and none if it equals it; the warning carries
\* the calculated and the recorded value.
C14_TotalCalculation ==
  \A k \in Validated :
     LET lifter == validated.lifters[k]
         tw == OfRule(lifterWarnings[k], "total_calculation")
         expected == ExpectedTotal(lifter, eventTypeOf(validated))
     IN /\ lifter.total = 0 => Len(tw) = 0
        /\ lifter.total # 0 =>
             /\ Len(tw) = (IF lifter.total # expected THEN 1 ELSE 0)
             /\ \A n \in 1..Len(tw) :
                  /\ tw[n].details.calculated = expected
                  /\ tw[n].details.recorded = lifter.total

\* Bests 150/100/180 with a recorded total of 425: one warning, calculated
\* 430.
C14_Witness ==
  \E k \in Validated :
     LET lifter == validated.lifters[k]
         tw == OfRule(lifterWarnings[k], "total_calculation")
     IN /\ eventTypeOf(validated) = "sbd"
        /\ getBestLift(lifter.squat) = 150
        /\ getBestLift(lifter.bench) = 100
        /\ getBestLift(lifter.deadlift) = 180
        /\ lifter.total = 425
        /\ Len(tw) = 1
        /\ tw[1].details.calculated = 430

ProgressionOf(ws, liftName) ==
  SelectSeq(ws, LAMBDA w : w.rule = "attempt_progression"
                           /\ w.details.lift = liftName)

\* Some later successful attempt is lighter than an earlier successful one.
Decreases(attempts) ==
  \E a \in 1..3, b \in 1..3 :
     /\ a < b
     /\ attempts[a].success
     /\ attempts[b].success
     /\ attempts[b].weight < attempts[a].weight

\* C15: for each lift of a lifter on its own, there is an
\* attempt_progression warning for the lift exactly when a later successful
\* attempt is lighter than an earlier successful one; failed attempts play
\* no part.
C15_AttemptProgression ==
  \A k \in Validated :
     LET lifter == validated.lifters[k]
         ws == lifterWarnings[k]
     IN /\ (Len(ProgressionOf(ws, "Squat")) > 0) <=> Decreases(lifter.squat)
        /\ (Len(ProgressionOf(ws, "Bench")) > 0) <=> Decreases(lifter.bench)
        /\ (Len(ProgressionOf(ws, "Deadlift")) > 0)
              <=> Decreases(lifter.deadlift)
        /\ Len(OfRule(ws, "attempt_progression"))
             = Len(ProgressionOf(ws, "Squat")) + Len(ProgressionOf(ws, "Bench"))
               + Len(ProgressionOf(ws, "Deadlift"))

\* Successful bench attempts of 100, 95 and 110 kg: exactly one warning.
C15_Witness ==
  \E k \in Validated :
     /\ validated.lifters[k].bench
          = <<Attempt(100, TRUE), Attempt(95, TRUE), Attempt(110, TRUE)>>
     /\ Len(OfRule(lifterWarnings[k], "attempt_progression")) = 1
     /\ OfRule(lifterWarnings[k], "attempt_progression")[1].details.weight2 = 95

WeightWarnings(ws) ==
  SelectSeq(ws, LAMBDA w : w.rule = "reasonable_ranges"
                           /\ "weight" \in DOMAIN w.details)

BodyWeightWarnings(ws) ==
  SelectSeq(ws, LAMBDA w : w.rule = "reasonable_ranges"
                           /\ "bodyWeight" \in DOMAIN w.details)

\* The attempted weights of a lifter that are outside 20..500 kg.
UnusualWeights(lifter) ==
  { w \in {(lifter.squat \o lifter.bench \o lifter.deadlift)[k].weight :
             k \in 1..9} : w > 0 /\ (w < 20 \/ w > 500) }

\* C16: a lifter gets one reasonable_ranges warning for each distinct
\* attempted weight above 0 that is below 20 or above 500, none for any
\* other weight, and one for its body weight exactly when the body weight
\* is above 0 and below 30 or above 200.
C16_ReasonableRanges ==
  \A k \in Validated :
     LET lifter == validated.lifters[k]
         ww == WeightWarnings(lifterWarnings[k])
         bw == BodyWeightWarnings(lifterWarnings[k])
     IN /\ Len(ww) = Cardinality(UnusualWeights(lifter))
        /\ {ww[n].details.weight : n \in 1..Len(ww)} = UnusualWeights(lifter)
        /\ Len(bw) = (IF lifter.bodyWeight > 0
                         /\ (lifter.bodyWeight < 30 \/ lifter.bodyWeight > 200)
                      THEN 1 ELSE 0)
        /\ Len(OfRule(lifterWarnings[k], "reasonable_ranges"))
             = Len(ww) + Len(bw)

\* A body weight of 15 kg and 510 kg attempted in two lifts: one warning
\* each.
C16_Witness ==
  \E k \in Validated :
     LET lifter == validated.lifters[k]
     IN /\ lifter.bodyWeight = 15
        /\ lifter.squat[3].weight = 510
        /\ lifter.deadlift[3].weight = 510
        /\ Len(WeightWarnings(lifterWarnings[k])) = 1
        /\ Len(BodyWeightWarnings(lifterWarnings[k])) = 1

RECURSIVE Flatten(_)
Flatten(lists) ==
  IF Len(lists) = 0 THEN << >> ELSE Head(lists) \o Flatten(Tail(lists))

RECURSIVE SumOver(_, _)
SumOver(f, keys) ==
  IF keys = {} THEN 0
  ELSE LET r == CHOOSE x \in keys : TRUE
       IN f[r] + SumOver(f, keys \ {r})

\* C17: the summary returned counts the lifters, the lifters with at least
\* one warning and the warnings of each rule, lists the warnings of the
\* lifters in lifter order, every warning has severity "warning" and the
\* id of the competition, and the competition handed in is never changed.
C17_PureAggregation ==
  /\ [](vpc = "done" =>
          /\ summary.totalLifters = Len(validated.lifters)
          /\ Len(lifterWarnings) = Len(validated.lifters)
          /\ summary.liftersWithWarnings
               = Cardinality({k \in Validated : Len(lifterWarnings[k]) > 0})
          /\ summary.allWarnings = Flatten(lifterWarnings)
          /\ SumOver(summary.warningsByRule, DOMAIN summary.warningsByRule)
               = Len(summary.allWarnings)
          /\ \A r \in DOMAIN summary.warningsByRule :
               summary.warningsByRule[r]
                 = Len(OfRule(summary.allWarnings, r))
          /\ \A n \in 1..Len(summary.allWarnings) :
               /\ summary.allWarnings[n].severity = "warning"
               /\ summary.allWarnings[n].competitionId
                    = validated.competition.id)
  /\ [][vpc # "off" => validated' = validated]_vars

\* Two lifters, the first without warnings, the second with two.
C17_Witness ==
  /\ vpc = "done"
  /\ Len(validated.lifters) = 2
  /\ Len(lifterWarnings[1]) = 0
  /\ Len(lifterWarnings[2]) >= 2
  /\ summary.liftersWithWarnings = 1
  /\ Cardinality(DOMAIN summary.warningsByRule) >= 2

\* ------------------------------------ src/parser.ts: the rows of a table
(***************************************************************************)
(* A row (tr) is the sequence of its cells (td); a cell is [text, struck]: *)
(* its trimmed, lower-cased text and whether its markup carries           *)
(* "line-through".  Texts are taken from a fixed vocabulary, and the       *)
(* substring, prefix and pattern tests of the parser are tables over that  *)
(* vocabulary.  Column indices count from 0 as in the code; -1 stands for  *)
(* undefined.                                                              *)
(***************************************************************************)
MaxRows == 3        \* most rows of a table below its header row

Cell(text) == [text |-> text, struck |-> FALSE]
Struck(text) == [text |-> text, struck |-> TRUE]

\* text.includes(part), for the parts the parser looks for.
PartsOf(text) ==
  CASE text = "sij" -> {"sij"}
    [] text = "m/n" -> {"m/n"}
    [] text = "sarja" -> {"sarja"}
    [] text = "paino" -> {"paino"}
    [] text = "nimi" -> {"nimi"}
    [] text = "seura" -> {"seura"}
    [] text = "jalkakyykky" -> {"jalkakyykky"}
    [] text = "penkkipunnerrus" -> {"penkkipunnerrus"}
    [] text = "maastanosto" -> {"maastanosto"}
    [] text = "yhteistulos" -> {"yhteistulos", "tulos"}
    [] text = "ipf gl" -> {"ipf", "gl"}
    [] text = "varustevoimanosto" -> {"varuste"}
    [] text = "klassinen" -> {"klassinen"}
    [] text = "tuomari" -> {"tuomari"}
    [] OTHER -> {}

Includes(text, part) == part \in PartsOf(text)

\* text.startsWith(prefix), for the prefixes "jk", "pp" and "mn".
PrefixesOf(text) ==
  CASE text = "jk" -> {"jk"}
    [] text = "pp" -> {"pp"}
    [] text = "mn" -> {"mn"}
    [] OTHER -> {}

StartsWith(text, prefix) == prefix \in PrefixesOf(text)

\* /^\d/ on a text
StartsWithDigit(text) ==
  text \in {"0", "1", "2", "3", "57", "62", "63", "74", "83", "84+", "90",
            "100", "105", "110", "120", "120+", "210", "310"}

\* /^1\.?$/, /^2\.?$/, /^3\.?$/
IsNumbered(text, n) ==
  \/ n = 1 /\ text = "1"
  \/ n = 2 /\ text = "2"
  \/ n = 3 /\ text = "3"

\* parseFloat(text.replace(",", ".")) || 0 and parseInt(text) || 0
NumberOf(text) ==
  CASE text = "1" -> 1
    [] text = "2" -> 2
    [] text = "3" -> 3
    [] text = "57" -> 57
    [] text = "62" -> 62
    [] text = "63" -> 63
    [] text = "83" -> 83
    [] text = "90" -> 90
    [] text = "100" -> 100
    [] text = "105" -> 105
    [] text = "110" -> 110
    [] text = "210" -> 210
    [] text = "310" -> 310
    [] text = "74" -> 74
    [] text = "84+" -> 84
    [] text = "120" -> 120
    [] text = "120+" -> 120
    [] text = "-1" -> -1
    [] text = "-100" -> -100
    [] OTHER -> 0

\* The first match of /([NM](?:14|18|23|40|50|60|70))/ in one text, "" for
\* none.
AgeClassIn(text) ==
  CASE text = "n40" -> "N40"
    [] text = "m40" -> "M40"
    [] text = "n40 57" -> "N40"
    [] OTHER -> ""

\* The texts of the cells of a row that are not empty, in order: the
\* textContent of the row, blank-normalized.
RowTexts(row) ==
  SelectSeq([k \in 1..Len(row) |-> row[k].text], LAMBDA t : t # "")

RowIncludes(row, part) ==
  \E k \in 1..Len(row) : Includes(row[k].text, part)

\* rowText === literal
RowTextIs(row, literal) == RowTexts(row) = <<literal>>

\* extractAgeClassFromText on the text of a row: the first code in it.
extractAgeClassFromText(row) ==
  LET found == {k \in 1..Len(row) : AgeClassIn(row[k].text) # ""}
  IN IF found = {} THEN ""
     ELSE AgeClassIn(row[CHOOSE k \in found : \A x \in found : k <= x].text)

\* extractGenderLabel: the gender of the age class code in the text.
extractGenderLabel(row) ==
  LET ageClass == extractAgeClassFromText(row)
  IN IF ageClass \in {"N14", "N18", "N23", "N40", "N50", "N60", "N70"}
     THEN "F"
     ELSE IF ageClass \in {"M14", "M18", "M23", "M40", "M50", "M60", "M70"}
     THEN "M"
     ELSE ""

\* extractEquipmentLabel on the text of a row.
extractEquipmentLabel(row) ==
  IF RowIncludes(row, "varuste") THEN "equipped"
  ELSE IF RowIncludes(row, "klassinen") \/ RowIncludes(row, "classic")
          \/ RowTextIs(row, "raw")
  THEN "raw"
  ELSE ""

\* cells[index], the empty text when there is no such cell.
TextAt(row, index) ==
  IF index >= 0 /\ index < Len(row) THEN row[index + 1].text ELSE ""

\* ----------------------------------------- src/parser.ts: detectColumnMap
\* headerTexts[index], counted from 0: undefined is the empty text.
HeaderAt(headerTexts, index) ==
  IF index >= 0 /\ index < Len(headerTexts) THEN headerTexts[index + 1]
  ELSE ""

\* The cells at col, col + 1, col + 2 read 1, 2, 3.
NumberedRun(headerTexts, col) ==
  /\ IsNumbered(HeaderAt(headerTexts, col), 1)
  /\ IsNumbered(HeaderAt(headerTexts, col + 1), 2)
  /\ IsNumbered(HeaderAt(headerTexts, col + 2), 3)

numberedAttemptStart(headerTexts, index) ==
  IF index >= 3 /\ NumberedRun(headerTexts, index - 3) THEN index - 3
  ELSE index

IsSquatHeader(text) == Includes(text, "jalkakyykky") \/ StartsWith(text, "jk")
IsBenchHeader(text) ==
  Includes(text, "penkkipunnerrus") \/ StartsWith(text, "pp")
IsDeadliftHeader(text) ==
  Includes(text, "maastanosto") \/ StartsWith(text, "mn")

\* The smallest of a set of indices, -1 (undefined) for the empty set.
FirstOf(indices) ==
  IF indices = {} THEN -1 ELSE CHOOSE m \in indices : \A x \in indices : m <= x

LastOf(indices) ==
  IF indices = {} THEN -1 ELSE CHOOSE m \in indices : \A x \in indices : x <= m

Indices(headerTexts) == 0..(Len(headerTexts) - 1)

\* The attempt start of the first header cell of a lift: later cells find
\* the field defined.
FirstStart(headerTexts, found) ==
  IF found = {} THEN -1 ELSE numberedAttemptStart(headerTexts, FirstOf(found))

\* headerTexts.forEach: a plain field keeps the index of the last cell that
\* matches, a lift start the one of the first.
DetectCells(headerTexts) ==
  LET at(col) == headerTexts[col + 1]
      all == Indices(headerTexts)
  IN [ position |-> LastOf({col \in all : Includes(at(col), "sij")}),
       gender |-> LastOf({col \in all : \/ Includes(at(col), "m/n")
                                         \/ Includes(at(col), "sukupuoli")}),
       weightClass |-> LastOf({col \in all : Includes(at(col), "sarja")}),
       bodyWeight |-> LastOf({col \in all : /\ Includes(at(col), "paino")
                                             /\ ~Includes(at(col), "kk")}),
       name |-> LastOf({col \in all : Includes(at(col), "nimi")}),
       birthYear |-> LastOf({col \in all :
                               \/ at(col) = "sv"
                               \/ Includes(at(col), "syntymävuosi")}),
       club |-> LastOf({col \in all : Includes(at(col), "seura")}),
       squatStart |-> FirstStart(headerTexts,
                        {col \in all : IsSquatHeader(at(col))}),
       benchStart |-> FirstStart(headerTexts,
                        {col \in all : IsBenchHeader(at(col))}),
       deadliftStart |-> FirstStart(headerTexts,
                           {col \in all : IsDeadliftHeader(at(col))}),
       total |-> LastOf({col \in all : \/ Includes(at(col), "yhteistulos")
                                        \/ Includes(at(col), "tulos")}),
       points |-> LastOf({col \in all : /\ Includes(at(col), "ipf")
                                         /\ Includes(at(col), "gl")}) ]

findNextAttemptStart(headerTexts, startIndex) ==
  FirstOf({ col \in Indices(headerTexts) :
              /\ col >= startIndex
              /\ col < Len(headerTexts) - 2
              /\ NumberedRun(headerTexts, col) })

\* The part of detectColumnMap that reads the sub-header row.
WithSubHeader(map, headerTexts, subHeaderTexts) ==
  LET squatHeaderIndex ==
        FirstOf({col \in Indices(headerTexts) : IsSquatHeader(headerTexts[col + 1])})
      benchHeaderIndex ==
        FirstOf({col \in Indices(headerTexts) : IsBenchHeader(headerTexts[col + 1])})
      deadliftHeaderIndex ==
        FirstOf({col \in Indices(headerTexts) :
                   IsDeadliftHeader(headerTexts[col + 1])})
      squatStart == IF squatHeaderIndex >= 0
                    THEN findNextAttemptStart(subHeaderTexts, squatHeaderIndex)
                    ELSE -1
      end1 == IF squatStart # -1 THEN squatStart + 4 ELSE 0
      benchStart ==
        IF benchHeaderIndex >= 0
        THEN findNextAttemptStart(subHeaderTexts,
               IF benchHeaderIndex > end1 THEN benchHeaderIndex ELSE end1)
        ELSE -1
      end2 == IF benchStart # -1 THEN benchStart + 4 ELSE end1
      deadliftStart ==
        IF deadliftHeaderIndex >= 0
        THEN findNextAttemptStart(subHeaderTexts,
               IF deadliftHeaderIndex > end2 THEN deadliftHeaderIndex ELSE end2)
        ELSE -1
      pointsIndex ==
        FirstOf({col \in Indices(subHeaderTexts) :
                   \/ Includes(subHeaderTexts[col + 1], "ipf")
                   \/ Includes(subHeaderTexts[col + 1], "gl")
                   \/ Includes(subHeaderTexts[col + 1], "pisteet")})
      lastTulosIndex ==
        LastOf({col \in Indices(subHeaderTexts) :
                  \/ Includes(subHeaderTexts[col + 1], "tulos")
                  \/ Includes(subHeaderTexts[col + 1], "yhteistulos")})
      m1 == IF squatStart # -1 THEN [map EXCEPT !.squatStart = squatStart]
            ELSE map
      m2 == IF benchStart # -1 THEN [m1 EXCEPT !.benchStart = benchStart]
            ELSE m1
      m3 == IF deadliftStart # -1
            THEN [m2 EXCEPT !.deadliftStart = deadliftStart] ELSE m2
      m4 == IF pointsIndex # -1 THEN [m3 EXCEPT !.points = pointsIndex] ELSE m3
  IN IF pointsIndex > 0 THEN [m4 EXCEPT !.total = pointsIndex - 1]
     ELSE IF lastTulosIndex # -1 THEN [m4 EXCEPT !.total = lastTulosIndex]
     ELSE m4

\* The search for a free 1-2-3 run when no bench start was found.
WithBenchRun(map, headerTexts) ==
  IF map.benchStart # -1 THEN map
  ELSE LET free ==
             { col \in Indices(headerTexts) :
                 /\ col < Len(headerTexts) - 2
                 /\ NumberedRun(headerTexts, col)
                 /\ ~(map.squatStart # -1 /\ col >= map.squatStart
                        /\ col <= map.squatStart + 3)
                 /\ ~(map.deadliftStart # -1 /\ col >= map.deadliftStart
                        /\ col <= map.deadliftStart + 3) }
       IN IF free = {} THEN map ELSE [map EXCEPT !.benchStart = FirstOf(free)]

\* A bench header without squat and deadlift headers clears their starts.
WithBenchOnly(map, headerTexts) ==
  LET has(part) == \E k \in 1..Len(headerTexts) : Includes(headerTexts[k], part)
  IN IF has("penkkipunnerrus") /\ ~has("jalkakyykky") /\ ~has("maastanosto")
     THEN [map EXCEPT !.squatStart = -1, !.deadliftStart = -1]
     ELSE map

TextsOf(row) == [k \in 1..Len(row) |-> row[k].text]

\* detectColumnMap(row, subHeaderRow); subHeaderRow << >> is undefined.
detectColumnMap(row, subHeaderRow) ==
  LET headerTexts == TextsOf(row)
      m1 == DetectCells(headerTexts)
      m2 == IF subHeaderRow # << >>
            THEN WithSubHeader(m1, headerTexts, TextsOf(subHeaderRow))
            ELSE m1
  IN WithBenchOnly(WithBenchRun(m2, headerTexts), headerTexts)

\* columnMap.field ?? fallback
OrDefault(index, fallback) == IF index = -1 THEN fallback ELSE index

\* --------------------------------------------- src/parser.ts: parseLifters
\* A cell counts as non-empty when its text is neither empty nor "-".
nonEmptyCells(row) ==
  SelectSeq(row, LAMBDA cell : cell.text # "" /\ cell.text # "-")

\* isHeaderRow (every cell of the model is a td).
isHeaderRow(row) ==
  \E k \in 1..Len(row) :
     \/ \E part \in {"sij", "nimi", "seura", "sarja", "paino", "ipf",
                     "jalkakyykky", "penkkipunnerrus", "maastanosto"} :
           Includes(row[k].text, part)
     \/ \E prefix \in {"jk", "pp", "mn"} : StartsWith(row[k].text, prefix)

\* The first row whose text holds "nimi" and "seura"; 0 when there is none.
headerRowIndexOf(rows) ==
  LET found == {k \in 1..Len(rows) :
                  RowIncludes(rows[k], "nimi") /\ RowIncludes(rows[k], "seura")}
  IN IF found = {} THEN 0 ELSE CHOOSE k \in found : \A x \in found : k <= x

hasSubHeaderRow(rows) ==
  /\ headerRowIndexOf(rows) + 1 <= Len(rows)
  /\ isHeaderRow(rows[headerRowIndexOf(rows) + 1])

IsWomenRow(row) ==
  extractGenderLabel(row) = "F" \/ RowTextIs(row, "naiset")
  \/ RowTextIs(row, "women")

IsMenRow(row) ==
  extractGenderLabel(row) = "M" \/ RowTextIs(row, "miehet")
  \/ RowTextIs(row, "men")

\* findGenderMarkers; an index of 0 is null.
findGenderMarkers(rows) ==
  LET women == {k \in 1..Len(rows) : IsWomenRow(rows[k])}
      men == {k \in 1..Len(rows) : IsMenRow(rows[k])}
  IN [ hasNaiset |-> women # {}, hasMiehet |-> men # {},
       naisetIndex |-> IF women = {} THEN 0
                       ELSE CHOOSE k \in women : \A x \in women : k <= x,
       miehetIndex |-> IF men = {} THEN 0
                       ELSE CHOOSE k \in men : \A x \in men : k <= x ]

\* findGenderBeforeIndex: the gender of the last marker row before endIndex.
RECURSIVE findGenderBeforeIndex(_, _)
findGenderBeforeIndex(rows, endIndex) ==
  IF endIndex <= 1 THEN ""
  ELSE LET before == findGenderBeforeIndex(rows, endIndex - 1)
           row == rows[endIndex - 1]
       IN IF endIndex - 1 > Len(rows) THEN before
          ELSE IF extractGenderLabel(row) # "" THEN extractGenderLabel(row)
          ELSE IF RowTextIs(row, "naiset") \/ RowTextIs(row, "women") THEN "F"
          ELSE IF RowTextIs(row, "miehet") \/ RowTextIs(row, "men") THEN "M"
          ELSE before

\* isAgeClassHeaderRow: lift header names, no name and no numeric position.
isAgeClassHeaderRow(row, map) ==
  /\ \/ RowIncludes(row, "jalkakyykky")
     \/ RowIncludes(row, "penkkipunnerrus")
     \/ RowIncludes(row, "maastanosto")
  /\ TextAt(row, OrDefault(map.name, 4)) = ""
  /\ ~StartsWithDigit(TextAt(row, OrDefault(map.position, 0)))

isStandaloneAgeClassRow(row) ==
  /\ Len(nonEmptyCells(row)) = 1
  /\ AgeClassIn(nonEmptyCells(row)[1].text) # ""

RECURSIVE findAgeClassBeforeIndex(_, _, _)
findAgeClassBeforeIndex(rows, endIndex, map) ==
  IF endIndex <= 1 THEN ""
  ELSE LET before == findAgeClassBeforeIndex(rows, endIndex - 1, map)
           row == rows[endIndex - 1]
       IN IF endIndex - 1 > Len(rows) THEN before
          ELSE IF extractAgeClassFromText(row) # ""
                  /\ (isAgeClassHeaderRow(row, map)
                        \/ isStandaloneAgeClassRow(row))
          THEN extractAgeClassFromText(row)
          ELSE before

\* parseInt(positionText) || positionText.match(/^\d/)
LooksNumbered(text) == NumberOf(text) # 0 \/ StartsWithDigit(text)

hasLiftersBeforeIndex(rows, startIndex, endIndex, map) ==
  \E k \in startIndex..(endIndex - 1) :
     /\ k <= Len(rows)
     /\ LET nameIndex == OrDefault(map.name, 4)
            positionIndex == OrDefault(map.position, 0)
        IN /\ Len(rows[k]) > nameIndex
           /\ Len(rows[k]) > positionIndex
           /\ TextAt(rows[k], nameIndex) # ""
           /\ LooksNumbered(TextAt(rows[k], positionIndex))

\* The default gender of a table without a gender column.
defaultGenderOf(rows, start, map) ==
  LET genderInfo == findGenderMarkers(rows)
  IN IF map.gender # -1 THEN ""
     ELSE IF genderInfo.hasNaiset /\ ~genderInfo.hasMiehet THEN "F"
     ELSE IF genderInfo.hasMiehet /\ ~genderInfo.hasNaiset
             /\ genderInfo.miehetIndex # 0
             /\ hasLiftersBeforeIndex(rows, start, genderInfo.miehetIndex, map)
     THEN "F"
     ELSE ""

minRequiredIndex(map) ==
  Max({ OrDefault(map.name, 4), OrDefault(map.club, 5),
        OrDefault(map.position, 0), map.gender,
        OrDefault(map.weightClass, 2), OrDefault(map.bodyWeight, 3) })

\* A test that knows the four division and gender words only.
IsOtherLabelExact(nameLower) ==
  nameLower \in {"klassinen", "varuste", "naiset", "miehet"}

\* The names that mark a row as no competitor.
IsOtherLabel(nameLower) ==
  \/ nameLower \in {"klassinen", "varuste", "naiset", "miehet"}
  \/ Includes(nameLower, "etunimi")
  \/ Includes(nameLower, "ennätykset")
  \/ Includes(nameLower, "tuomari")

\* What the body of the row loop does with a row, test by test in the
\* order of the code.
RowClass(row, map) ==
  IF extractAgeClassFromText(row) # "" /\ isAgeClassHeaderRow(row, map)
  THEN "ageClassHeader"
  ELSE IF Len(row) <= minRequiredIndex(map) THEN "short"
  ELSE IF Len(nonEmptyCells(row)) = 1 /\ extractEquipmentLabel(row) # ""
  THEN "equipment"
  ELSE IF Len(nonEmptyCells(row)) = 1 /\ extractGenderLabel(row) # ""
  THEN "gender"
  ELSE IF Len(nonEmptyCells(row)) = 1
          /\ (RowTextIs(row, "naiset") \/ RowTextIs(row, "women"))
  THEN "women"
  ELSE IF Len(nonEmptyCells(row)) = 1
          /\ (RowTextIs(row, "miehet") \/ RowTextIs(row, "men"))
  THEN "men"
  ELSE IF TextAt(row, OrDefault(map.name, 4)) = "" THEN "skip"
  ELSE IF IsOtherLabel(TextAt(row, OrDefault(map.name, 4))) THEN "skip"
  ELSE IF ~LooksNumbered(TextAt(row, OrDefault(map.position, 0))) THEN "skip"
  ELSE "lifter"

Abs(n) == IF n < 0 THEN -n ELSE n

\* An attempt parser for which a struck cell is no attempt at all.
parseAttemptDroppingFailed(row, index) ==
  IF ~(index >= 0 /\ index < Len(row)) THEN NoAttempt
  ELSE IF row[index + 1].text \in {"", "-", "0"} THEN NoAttempt
  ELSE IF row[index + 1].struck THEN NoAttempt
  ELSE Attempt(Abs(NumberOf(row[index + 1].text)),
               Abs(NumberOf(row[index + 1].text)) > 0)

\* parseAttempt(cells[index])
parseAttempt(row, index) ==
  IF ~(index >= 0 /\ index < Len(row)) THEN NoAttempt
  ELSE IF row[index + 1].text \in {"", "-", "0"} THEN NoAttempt
  ELSE LET weight == Abs(NumberOf(row[index + 1].text))
       IN Attempt(weight, weight > 0 /\ ~row[index + 1].struck)

parseAttempts(row, startIndex) ==
  IF startIndex = -1 THEN NoLift
  ELSE << parseAttempt(row, startIndex), parseAttempt(row, startIndex + 1),
          parseAttempt(row, startIndex + 2) >>

\* A gender that prefers the live context over the cell of the lifter.
lifterGenderFromContext(genderText, currentGender, default) ==
  IF currentGender # "" THEN currentGender
  ELSE IF genderText \in {"n"} THEN "F"
  ELSE IF genderText \in {"m"} THEN "M"
  ELSE IF default # "" THEN default
  ELSE "M"

\* The gender of a lifter: its own cell first, then the live context.
lifterGender(genderText, currentGender, default) ==
  IF genderText \in {"n"} THEN "F"
  ELSE IF genderText \in {"m"} THEN "M"
  ELSE IF currentGender # "" THEN currentGender
  ELSE IF default # "" THEN default
  ELSE "M"

\* The characters of the texts a weight class cell is given; a text
\* without a digit in it is a single letter.
CharsOf(text) ==
  CASE text = "" -> << >>
    [] text = "0" -> <<"0">>
    [] text = "1" -> <<"1">>
    [] text = "2" -> <<"2">>
    [] text = "3" -> <<"3">>
    [] text = "90" -> <<"9", "0">>
    [] text = "100" -> <<"1", "0", "0">>
    [] text = "110" -> <<"1", "1", "0">>
    [] text = "210" -> <<"2", "1", "0">>
    [] text = "310" -> <<"3", "1", "0">>
    [] text = "-1" -> <<"-", "1">>
    [] text = "-100" -> <<"-", "1", "0", "0">>
    [] text = "57" -> <<"5", "7">>
    [] text = "62" -> <<"6", "2">>
    [] text = "63" -> <<"6", "3">>
    [] text = "74" -> <<"7", "4">>
    [] text = "83" -> <<"8", "3">>
    [] text = "84+" -> <<"8", "4", "+">>
    [] text = "105" -> <<"1", "0", "5">>
    [] text = "120" -> <<"1", "2", "0">>
    [] text = "120+" -> <<"1", "2", "0", "+">>
    [] text = "m74" -> <<"m", "7", "4">>
    [] text = "m105" -> <<"m", "1", "0", "5">>
    [] text = "m120+" -> <<"m", "1", "2", "0", "+">>
    [] text = "n40 57" -> <<"n", "4", "0", " ", "5", "7">>
    [] text = "n40" -> <<"n", "4", "0">>
    [] text = "m40" -> <<"m", "4", "0">>
    [] text = "-" -> <<"-">>
    [] OTHER -> <<"a">>

IsDigit(char) ==
  char \in {"0", "1", "2", "3", "4", "5", "6", "7", "8", "9"}

IsGenderLetter(char) == char \in {"m", "n"}

RECURSIVE StripAgeClass(_)
\* text.replace(/[MN]\d{2}/gi, ""): every M or N followed by two digits
\* goes, with the two digits.
StripAgeClass(chars) ==
  IF chars = << >> THEN << >>
  ELSE IF Len(chars) >= 3 /\ IsGenderLetter(chars[1]) /\ IsDigit(chars[2])
          /\ IsDigit(chars[3])
       THEN StripAgeClass(SubSeq(chars, 4, Len(chars)))
  ELSE <<Head(chars)>> \o StripAgeClass(Tail(chars))

\* trim()
Trim(chars) ==
  LET inked == {k \in 1..Len(chars) : chars[k] # " "}
  IN IF inked = {} THEN << >>
     ELSE SubSeq(chars, CHOOSE k \in inked : \A x \in inked : k <= x,
                        CHOOSE k \in inked : \A x \in inked : x <= k)

\* The number of digits from position from on.
DigitRun(chars, from) ==
  LET stops == {k \in from..(Len(chars) + 1) :
                  k = Len(chars) + 1 \/ ~IsDigit(chars[k])}
  IN (CHOOSE k \in stops : \A x \in stops : k <= x) - from

\* `${numeric}+` or `-${numeric}` for the digits at from and the character
\* after them.
SignedClass(chars, from) ==
  LET numeric == SubSeq(chars, from, from + DigitRun(chars, from) - 1)
      after == from + DigitRun(chars, from)
  IN IF after <= Len(chars) /\ chars[after] = "+" THEN Append(numeric, "+")
     ELSE <<"-">> \o numeric

\* The first position after the gender letter that is not a blank.
AfterPrefix(chars) ==
  LET inked == {k \in 2..(Len(chars) + 1) :
                  k = Len(chars) + 1 \/ chars[k] # " "}
  IN CHOOSE k \in inked : \A x \in inked : k <= x

\* The normalized weight class of a weight class cell, as characters: the
\* match of /^(\d+)(\+)?/ on the text without its age class codes, else
\* the match of /^[MN]\s*(\d+)(\+)?/i on the text itself, else nothing.
weightClassOf(text) ==
  LET chars == CharsOf(text)
      clean == Trim(StripAgeClass(chars))
  IN IF DigitRun(clean, 1) > 0 THEN SignedClass(clean, 1)
     ELSE IF chars # << >> /\ IsGenderLetter(chars[1])
             /\ DigitRun(chars, AfterPrefix(chars)) > 0
          THEN SignedClass(chars, AfterPrefix(chars))
     ELSE << >>

\* The lifter pushed for a data row.
lifterOf(row, map, currentGender, default, currentAgeClassHeader, equipment) ==
  LET genderText == IF map.gender # -1 THEN TextAt(row, map.gender) ELSE ""
      weightClassText == TextAt(row, OrDefault(map.weightClass, 2))
      ageClassFromCell == AgeClassIn(weightClassText)
  IN [ name |-> TextAt(row, OrDefault(map.name, 4)),
       birthYear |-> 0,
       gender |-> lifterGender(genderText, currentGender, default),
       ageClass |-> IF ageClassFromCell # "" THEN ageClassFromCell
                    ELSE currentAgeClassHeader,
       equipment |-> equipment,
       weightClass |-> weightClassOf(weightClassText),
       bodyWeight |-> NumberOf(TextAt(row, OrDefault(map.bodyWeight, 3))),
       club |-> TextAt(row, OrDefault(map.club, 5)),
       squat |-> parseAttempts(row, map.squatStart),
       bench |-> parseAttempts(row, OrDefault(map.benchStart, 10)),
       deadlift |-> parseAttempts(row, map.deadliftStart),
       total |-> NumberOf(TextAt(row, OrDefault(map.total, 18))),
       points |-> NumberOf(TextAt(row, OrDefault(map.points, 19))),
       position |-> NumberOf(TextAt(row, OrDefault(map.position, 0))) ]

\* ------------------------------------ src/parser.ts: parseCompetitionPage
detectEventType(lifters) ==
  IF \E k \in 1..Len(lifters) :
        \/ \E a \in 1..3 : lifters[k].squat[a].weight > 0
        \/ \E a \in 1..3 : lifters[k].deadlift[a].weight > 0
  THEN "sbd" ELSE "b"

equipmentLabel(equipment) ==
  IF equipment = "raw" THEN "(Classic)" ELSE "(Equipped)"

\* A split that types every group by its own lifters.
competitionResultsTypedByGroup(parsedCompetition, lifters) ==
  LET eventType == detectEventType(lifters)
      keys == equipmentKeys(lifters, << >>)
  IN IF Len(keys) <= 1
     THEN << [ competition |-> [ id |-> parsedCompetition.id,
                                 name |-> parsedCompetition.name,
                                 eventType |-> eventType ],
               lifters |-> lifters ] >>
     ELSE [ k \in 1..Len(keys) |->
              [ competition |->
                  [ id |-> Append(parsedCompetition.id, keys[k]),
                    name |-> Append(parsedCompetition.name,
                                    equipmentLabel(keys[k])),
                    eventType |-> detectEventType(
                       SelectSeq(lifters, LAMBDA l : l.equipment = keys[k])) ],
                lifters |-> SelectSeq(lifters,
                                      LAMBDA l : l.equipment = keys[k]) ] ]

\* A split that hands every lifter to every group.
competitionResultsOfAllLifters(parsedCompetition, lifters) ==
  LET eventType == detectEventType(lifters)
      keys == equipmentKeys(lifters, << >>)
  IN IF Len(keys) <= 1
     THEN << [ competition |-> [ id |-> parsedCompetition.id,
                                 name |-> parsedCompetition.name,
                                 eventType |-> eventType ],
               lifters |-> lifters ] >>
     ELSE [ k \in 1..Len(keys) |->
              [ competition |->
                  [ id |-> Append(parsedCompetition.id, keys[k]),
                    name |-> Append(parsedCompetition.name,
                                    equipmentLabel(keys[k])),
                    eventType |-> eventType ],
                lifters |-> lifters ] ]

\* parseCompetitionPage from detectEventType on: the event type of all
\* lifters, then one group, or one group per equipment in Map order.
competitionResults(parsedCompetition, lifters) ==
  LET eventType == detectEventType(lifters)
      keys == equipmentKeys(lifters, << >>)
  IN IF Len(keys) <= 1
     THEN << [ competition |-> [ id |-> parsedCompetition.id,
                                 name |-> parsedCompetition.name,
                                 eventType |-> eventType ],
               lifters |-> lifters ] >>
     ELSE [ k \in 1..Len(keys) |->
              [ competition |->
                  [ id |-> Append(parsedCompetition.id, keys[k]),
                    name |-> Append(parsedCompetition.name,
                                    equipmentLabel(keys[k])),
                    eventType |-> eventType ],
                lifters |-> SelectSeq(lifters,
                                      LAMBDA l : l.equipment = keys[k]) ] ]

\* parseEventInfo on a document without a title: the id and the name of
\* the competition handed in.
parseEventInfo(id) == [id |-> <<id>>, name |-> CompetitionName(id)]

\* A page whose lifters keep the equipment of their rows.
lifterListAsParsed(parsedCompetition, lifters) ==
  lifters

\* The lifters after the "varuste" rule of parseCompetitionPage.
lifterListOf(parsedCompetition, lifters) ==
  IF Contains(parsedCompetition.name, "varuste") THEN forceEquipped(lifters)
  ELSE lifters

\* ------------------------------------------------------------- the tables
HeaderWithGender ==
  << Cell("sij"), Cell("m/n"), Cell("sarja"), Cell("paino"), Cell("nimi"),
     Cell("seura"), Cell("1"), Cell("2"), Cell("3"), Cell("jalkakyykky"),
     Cell("1"), Cell("2"), Cell("3"), Cell("penkkipunnerrus"), Cell("1"),
     Cell("2"), Cell("3"), Cell("maastanosto"), Cell("yhteistulos"),
     Cell("ipf gl") >>

\* The same header without the gender column.
HeaderPlain == <<Head(HeaderWithGender)>> \o Tail(Tail(HeaderWithGender))

Headers == {HeaderWithGender, HeaderPlain}

HasGenderCell(header) == \E k \in 1..Len(header) : header[k].text = "m/n"

\* A data row laid out under a header.
DataRow(header, position, gender, weightClass, bodyWeight, name, club, squat, bench, deadlift, total, points) ==
  << Cell(position) >>
  \o (IF HasGenderCell(header) THEN << Cell(gender) >> ELSE << >>)
  \o << Cell(weightClass), Cell(bodyWeight), Cell(name), Cell(club) >>
  \o squat \o << Cell("") >> \o bench \o << Cell("") >>
  \o deadlift \o << Cell("") >> \o << Cell(total), Cell(points) >>

\* A row as wide as the header with one text in its first cell; the other
\* cells hold the filler ("" or "-").
BannerRow(header, text, filler) ==
  [k \in 1..Len(header) |-> IF k = 1 THEN Cell(text) ELSE Cell(filler)]

\* A row with an age class code in its first cell that repeats the lift
\* names of the header.
LiftHeaderRow(header, code) ==
  [k \in 1..Len(header) |->
     IF k = 1 THEN Cell(code)
     ELSE IF header[k].text \in {"jalkakyykky", "penkkipunnerrus", "maastanosto"}
     THEN header[k]
     ELSE Cell("")]

NoCells == << Cell(""), Cell(""), Cell("") >>

\* The rows a table can have below a header.
RowsUnder(header) ==
  << DataRow(header, "1", "", "63", "62", "anna", "tvk",
             << Cell("100"), Struck("105"), Cell("") >>,
             << Cell("57"), Cell("-"), Cell("") >>,
             << Cell("110"), Cell(""), Cell("") >>, "210", "90"),
     DataRow(header, "2", "n", "n40 57", "57", "bea", "tvk",
             NoCells, << Cell("62"), Struck("63"), Cell("") >>, NoCells,
             "62", "83"),
     DataRow(header, "-", "m", "83", "83", "cia", "tvk",
             NoCells, << Struck("100"), Cell(""), Cell("") >>, NoCells,
             "", ""),
     BannerRow(header, "varustevoimanosto", ""),
     BannerRow(header, "n40", ""),
     BannerRow(header, "miehet", ""),
     << Cell("varustevoimanosto") >>,
     LiftHeaderRow(header, "m40") >>

\* The table with a header and the chosen rows below it.
TableOf(header, choice) ==
  <<header>> \o [k \in 1..Len(choice) |-> RowsUnder(header)[choice[k]]]

\* parseCompetitionPage(html, competition) is called on a document with one
\* table.
InitParse ==
  /\ ScraperIdle
  /\ ValidatorOff
  /\ competition \in Ids
  /\ \E header \in Headers, n \in 0..MaxRows :
        \E choice \in [1..n -> 1..Len(RowsUnder(header))] :
           trows = TableOf(header, choice)
  /\ laterTables = << >>
  /\ ppc = "table"
  /\ columnMap = << >>
  /\ dataStartIndex = 0
  /\ defaultGender = ""
  /\ curGender = ""
  /\ curAgeClass = ""
  /\ curEquipment = ""
  /\ rowIdx = 0
  /\ lifterList = << >>
  /\ pageResult = << >>

\* A setup whose live equipment is declared once, before the loop over the
\* tables.
SetupTableKeepingEquipment ==
  /\ ppc = "table"
  /\ \E header \in 1..Len(trows), sub \in BOOLEAN :
        /\ header = headerRowIndexOf(trows)
        /\ sub = hasSubHeaderRow(trows)
        /\ columnMap' = detectColumnMap(trows[header],
                          IF sub THEN trows[header + 1] ELSE << >>)
        /\ dataStartIndex' = IF sub THEN header + 2 ELSE header + 1
  /\ defaultGender' = defaultGenderOf(trows, dataStartIndex', columnMap')
  /\ curGender' = IF findGenderBeforeIndex(trows, dataStartIndex') = ""
                     /\ defaultGender' # ""
                  THEN defaultGender'
                  ELSE findGenderBeforeIndex(trows, dataStartIndex')
  /\ curAgeClass' = findAgeClassBeforeIndex(trows, dataStartIndex', columnMap')
  /\ curEquipment' = IF curEquipment = "" THEN "raw" ELSE curEquipment
  /\ rowIdx' = dataStartIndex'
  /\ ppc' = "rows"
  /\ UNCHANGED <<competition, trows, laterTables, lifterList, pageResult, scraperVars,
                 validatorVars>>

\* parseLifters up to the row loop: header row, column map, first data row
\* and the section context the loop starts with.
SetupTable ==
  /\ ppc = "table"
  /\ \E header \in 1..Len(trows), sub \in BOOLEAN :
        /\ header = headerRowIndexOf(trows)
        /\ sub = hasSubHeaderRow(trows)
        /\ columnMap' = detectColumnMap(trows[header],
                          IF sub THEN trows[header + 1] ELSE << >>)
        /\ dataStartIndex' = IF sub THEN header + 2 ELSE header + 1
  /\ defaultGender' = defaultGenderOf(trows, dataStartIndex', columnMap')
  /\ curGender' = IF findGenderBeforeIndex(trows, dataStartIndex') = ""
                     /\ defaultGender' # ""
                  THEN defaultGender'
                  ELSE findGenderBeforeIndex(trows, dataStartIndex')
  /\ curAgeClass' = findAgeClassBeforeIndex(trows, dataStartIndex', columnMap')
  /\ curEquipment' = "raw"
  /\ rowIdx' = dataStartIndex'
  /\ ppc' = "rows"
  /\ UNCHANGED <<competition, trows, laterTables, lifterList, pageResult, scraperVars,
                 validatorVars>>

InLoop(class) ==
  /\ ppc = "rows"
  /\ rowIdx <= Len(trows)
  /\ RowClass(trows[rowIdx], columnMap) = class

\* A lift header row that does not set the gender.
AgeClassHeaderRowKeepsGender ==
  /\ InLoop("ageClassHeader")
  /\ curAgeClass' = extractAgeClassFromText(trows[rowIdx])
  /\ rowIdx' = rowIdx + 1
  /\ UNCHANGED <<ppc, competition, trows, laterTables, columnMap, dataStartIndex,
                 defaultGender, curGender, curEquipment, lifterList, pageResult,
                 scraperVars, validatorVars>>

\* The row carries an age class code and is an age class header row.
AgeClassHeaderRow ==
  /\ InLoop("ageClassHeader")
  /\ curAgeClass' = extractAgeClassFromText(trows[rowIdx])
  /\ curGender' = IF extractAgeClassFromText(trows[rowIdx])
                       \in {"N14", "N18", "N23", "N40", "N50", "N60", "N70"}
                   THEN "F" ELSE "M"
  /\ rowIdx' = rowIdx + 1
  /\ UNCHANGED <<ppc, competition, trows, laterTables, columnMap, dataStartIndex,
                 defaultGender, curEquipment, lifterList, pageResult,
                 scraperVars, validatorVars>>

\* cells.length <= minRequiredIndex: continue.
ShortRow ==
  /\ InLoop("short")
  /\ rowIdx' = rowIdx + 1
  /\ UNCHANGED <<ppc, competition, trows, laterTables, columnMap, dataStartIndex,
                 defaultGender, curGender, curAgeClass, curEquipment,
                 lifterList, pageResult, scraperVars, validatorVars>>

\* One non-empty cell with an equipment label.
EquipmentRow ==
  /\ InLoop("equipment")
  /\ curEquipment' = extractEquipmentLabel(trows[rowIdx])
  /\ rowIdx' = rowIdx + 1
  /\ UNCHANGED <<ppc, competition, trows, laterTables, columnMap, dataStartIndex,
                 defaultGender, curGender, curAgeClass, lifterList, pageResult,
                 scraperVars, validatorVars>>

\* One non-empty cell with a gender label (an age class code).
GenderRow ==
  /\ InLoop("gender")
  /\ curGender' = extractGenderLabel(trows[rowIdx])
  /\ curAgeClass' = IF extractAgeClassFromText(trows[rowIdx]) # ""
                    THEN extractAgeClassFromText(trows[rowIdx])
                    ELSE curAgeClass
  /\ rowIdx' = rowIdx + 1
  /\ UNCHANGED <<ppc, competition, trows, laterTables, columnMap, dataStartIndex,
                 defaultGender, curEquipment, lifterList, pageResult,
                 scraperVars, validatorVars>>

\* One non-empty cell, the row text is "naiset"/"women" or "miehet"/"men".
LiteralGenderRow ==
  /\ ppc = "rows"
  /\ rowIdx <= Len(trows)
  /\ RowClass(trows[rowIdx], columnMap) \in {"women", "men"}
  /\ curGender' = IF RowClass(trows[rowIdx], columnMap) = "women" THEN "F"
                  ELSE "M"
  /\ rowIdx' = rowIdx + 1
  /\ UNCHANGED <<ppc, competition, trows, laterTables, columnMap, dataStartIndex,
                 defaultGender, curAgeClass, curEquipment, lifterList,
                 pageResult, scraperVars, validatorVars>>

\* No name, a label in the name cell, or no numeric position: continue.
SkipRow ==
  /\ InLoop("skip")
  /\ rowIdx' = rowIdx + 1
  /\ UNCHANGED <<ppc, competition, trows, laterTables, columnMap, dataStartIndex,
                 defaultGender, curGender, curAgeClass, curEquipment,
                 lifterList, pageResult, scraperVars, validatorVars>>

\* lifters.push for a data row.
EmitLifter ==
  /\ InLoop("lifter")
  /\ lifterList' = Append(lifterList,
                     lifterOf(trows[rowIdx], columnMap, curGender,
                              defaultGender, curAgeClass, curEquipment))
  /\ rowIdx' = rowIdx + 1
  /\ UNCHANGED <<ppc, competition, trows, laterTables, columnMap, dataStartIndex,
                 defaultGender, curGender, curAgeClass, curEquipment,
                 pageResult, scraperVars, validatorVars>>

\* After the last row of the last table: the "varuste" rule, the event type
\* and the split.
ReturnResults ==
  /\ ppc = "rows"
  /\ rowIdx > Len(trows)
  /\ laterTables = << >>
  /\ pageResult' = competitionResults(parseEventInfo(competition),
                     lifterListOf(parseEventInfo(competition), lifterList))
  /\ ppc' = "done"
  /\ UNCHANGED <<competition, trows, laterTables, columnMap, dataStartIndex, defaultGender,
                 curGender, curAgeClass, curEquipment, rowIdx, lifterList,
                 scraperVars, validatorVars>>

NextParse ==
  \/ SetupTable
  \/ AgeClassHeaderRow
  \/ ShortRow
  \/ EquipmentRow
  \/ GenderRow
  \/ LiteralGenderRow
  \/ SkipRow
  \/ EmitLifter
  \/ ReturnResults

SpecParse == InitParse /\ [][NextParse]_vars

\* ------------------------------------------ claims on parseCompetitionPage
\* The lifters of the page as they stand at the split: all equipped when
\* the competition name says "varuste".
AtSplit ==
  [k \in 1..Len(lifterList) |->
     IF Contains(CompetitionName(competition), "varuste")
     THEN [lifterList[k] EXCEPT !.equipment = "equipped"]
     ELSE lifterList[k]]

HasCategory(category) ==
  \E k \in 1..Len(AtSplit) : AtSplit[k].equipment = category

OfCategory(category) ==
  SelectSeq(AtSplit, LAMBDA l : l.equipment = category)

SuffixOf(category) == IF category = "raw" THEN "(Classic)" ELSE "(Equipped)"

\* A lifter with a squat or deadlift attempt of positive weight.
LiftsBeyondBench(l) ==
  \E a \in 1..3 : l.squat[a].weight > 0 \/ l.deadlift[a].weight > 0

\* C12: a page with raw and equipped lifters returns exactly two groups, one
\* per category, with the id and the name suffixed by the category and the
\* lifters of that category in page order; a page of one category (or of no
\* lifter) returns one group with the id and the name as given and all
\* lifters.
C12_EquipmentSplit ==
  ppc = "done" =>
    IF HasCategory("raw") /\ HasCategory("equipped")
    THEN /\ Len(pageResult) = 2
         /\ { pageResult[g].competition.id : g \in 1..2 }
              = { <<competition, "raw">>, <<competition, "equipped">> }
         /\ \A g \in 1..2 :
              \E category \in {"raw", "equipped"} :
                 /\ pageResult[g].competition.id = <<competition, category>>
                 /\ pageResult[g].competition.name
                      = Append(CompetitionName(competition), SuffixOf(category))
                 /\ pageResult[g].lifters = OfCategory(category)
    ELSE /\ Len(pageResult) = 1
         /\ pageResult[1].competition.id = <<competition>>
         /\ pageResult[1].competition.name = CompetitionName(competition)
         /\ pageResult[1].lifters = AtSplit

\* A page split in a raw group and an equipped group of different lifters.
C12_Witness ==
  /\ ppc = "done"
  /\ Len(pageResult) = 2
  /\ HasCategory("raw") /\ HasCategory("equipped")
  /\ pageResult[1].lifters[1].name # pageResult[2].lifters[1].name

\* C13: the event type is "b" exactly when no lifter of the page has a squat
\* or deadlift attempt of positive weight, and "sbd" otherwise; every group
\* of a split page carries this event type.
C13_EventType ==
  ppc = "done" =>
    \A g \in 1..Len(pageResult) :
       pageResult[g].competition.eventType
         = IF \E k \in 1..Len(lifterList) : LiftsBeyondBench(lifterList[k])
           THEN "sbd" ELSE "b"

\* A split page typed "sbd" with a group of bench-only lifters.
C13_Witness ==
  /\ ppc = "done"
  /\ Len(pageResult) = 2
  /\ \E g \in 1..2 :
        /\ pageResult[g].competition.eventType = "sbd"
        /\ \A k \in 1..Len(pageResult[g].lifters) :
              ~LiftsBeyondBench(pageResult[g].lifters[k])

\* ---------------------------------------------------- claims on parseLifters
\* The loop is at a row of the table and takes it.
TakesRow ==
  /\ ppc = "rows"
  /\ rowIdx <= Len(trows)
  /\ rowIdx' = rowIdx + 1

EmitsLifter == TakesRow /\ Len(lifterList') = Len(lifterList) + 1

Emitted == lifterList'[Len(lifterList')]

\* A row with exactly one cell that is neither empty nor "-".
IsBannerRow(row) ==
  Cardinality({k \in 1..Len(row) : row[k].text \notin {"", "-"}}) = 1

\* C18: a row with exactly one non-empty cell is tested for an equipment
\* label, then a gender label, then a bare literal; the first test that
\* matches sets the live equipment or the live gender, and the row is never
\* emitted as a lifter.
C18_BannerRows ==
  [][ (TakesRow /\ IsBannerRow(trows[rowIdx])) =>
        /\ lifterList' = lifterList
        /\ IF extractEquipmentLabel(trows[rowIdx]) # ""
           THEN curEquipment' = extractEquipmentLabel(trows[rowIdx])
           ELSE IF extractGenderLabel(trows[rowIdx]) # ""
           THEN curGender' = extractGenderLabel(trows[rowIdx])
           ELSE IF RowTextIs(trows[rowIdx], "naiset")
                   \/ RowTextIs(trows[rowIdx], "women")
           THEN curGender' = "F"
           ELSE IF RowTextIs(trows[rowIdx], "miehet")
                   \/ RowTextIs(trows[rowIdx], "men")
           THEN curGender' = "M"
           ELSE TRUE ]_vars

\* C19: the gender of an emitted lifter is the one of its gender cell when
\* the table has a gender column and the cell starts with N or M, otherwise
\* the live gender, else the default gender of the table, else M; its
\* equipment is the live equipment and its age class the code of its own
\* weight-class cell, else the live age class.
C19_LifterContext ==
  [][ EmitsLifter =>
        LET genderText == IF columnMap.gender # -1
                          THEN TextAt(trows[rowIdx], columnMap.gender)
                          ELSE ""
            ownAgeClass ==
              AgeClassIn(TextAt(trows[rowIdx], OrDefault(columnMap.weightClass, 2)))
        IN /\ Emitted.gender =
                IF genderText = "n" THEN "F"
                ELSE IF genderText = "m" THEN "M"
                ELSE IF curGender # "" THEN curGender
                ELSE IF defaultGender # "" THEN defaultGender
                ELSE "M"
           /\ Emitted.equipment = curEquipment
           /\ Emitted.ageClass = IF ownAgeClass # "" THEN ownAgeClass
                                 ELSE curAgeClass ]_vars

\* A lifter emitted as F by its gender cell in a section of men.
C19_Witness ==
  /\ ppc = "rows"
  /\ rowIdx > dataStartIndex
  /\ RowClass(trows[rowIdx - 1], columnMap) = "lifter"
  /\ columnMap.gender # -1
  /\ TextAt(trows[rowIdx - 1], columnMap.gender) = "n"
  /\ curGender = "M"
  /\ Len(lifterList) >= 1
  /\ lifterList[Len(lifterList)].gender = "F"

\* A row of several cells with a lift header name and an age class code, no
\* name and no numeric position.
IsAgeClassBanner(row, map) ==
  /\ Len(row) > 1
  /\ \E k \in 1..Len(row) :
        row[k].text \in {"jalkakyykky", "penkkipunnerrus", "maastanosto"}
  /\ \E k \in 1..Len(row) : AgeClassIn(row[k].text) # ""
  /\ TextAt(row, OrDefault(map.name, 4)) = ""
  /\ NumberOf(TextAt(row, OrDefault(map.position, 0))) = 0

GenderOfCode(code) ==
  IF code \in {"N14", "N18", "N23", "N40", "N50", "N60", "N70"} THEN "F"
  ELSE "M"

\* C20: an age class banner is consumed without a lifter, sets the live age
\* class to its code and the live gender to the gender of the code; a banner
\* between the header and the first data row sets the context the loop
\* starts with; emitting a lifter leaves both as they are.
C20_AgeClassBanner ==
  [][ /\ (TakesRow /\ IsAgeClassBanner(trows[rowIdx], columnMap)) =>
           /\ lifterList' = lifterList
           /\ curAgeClass' = extractAgeClassFromText(trows[rowIdx])
           /\ curGender' = GenderOfCode(extractAgeClassFromText(trows[rowIdx]))
      /\ (ppc = "table" /\ ppc' = "rows") =>
           \A k \in 2..(dataStartIndex' - 1) :
              IsAgeClassBanner(trows[k], columnMap') =>
                /\ curAgeClass' = extractAgeClassFromText(trows[k])
                /\ curGender' = GenderOfCode(extractAgeClassFromText(trows[k]))
      /\ EmitsLifter => UNCHANGED <<curAgeClass, curGender>> ]_vars

\* A lifter without age class and gender of its own emitted right after an
\* age class banner that followed a section of women.
C20_Witness ==
  /\ ppc = "rows"
  /\ rowIdx - 3 >= dataStartIndex
  /\ RowClass(trows[rowIdx - 3], columnMap) = "gender"
  /\ IsAgeClassBanner(trows[rowIdx - 2], columnMap)
  /\ RowClass(trows[rowIdx - 1], columnMap) = "lifter"
  /\ Len(lifterList) >= 1
  /\ lifterList[Len(lifterList)].ageClass = "M40"
  /\ lifterList[Len(lifterList)].gender = "M"
  /\ curAgeClass = "M40"
  /\ curGender = "M"


\* ----------------------------------------- claims on the equipped marker
\* C27: when the name of the competition contains "varuste", every lifter
\* of the returned page is equipped, whatever the equipment banners of the
\* rows said, and the page is returned as one group under the id and the
\* name as given, holding every parsed lifter.
C27_EquippedMarker ==
  (ppc = "done" /\ Contains(CompetitionName(competition), "varuste")) =>
    /\ Len(pageResult) = 1
    /\ pageResult[1].competition.id = <<competition>>
    /\ pageResult[1].competition.name = CompetitionName(competition)
    /\ Len(pageResult[1].lifters) = Len(lifterList)
    /\ \A k \in 1..Len(lifterList) :
          /\ pageResult[1].lifters[k].equipment = "equipped"
          /\ pageResult[1].lifters[k].name = lifterList[k].name

\* A "varuste" competition whose rows gave a raw and an equipped lifter.
C27_Witness ==
  /\ ppc = "done"
  /\ Contains(CompetitionName(competition), "varuste")
  /\ \E k \in 1..Len(lifterList) : lifterList[k].equipment = "raw"
  /\ \E k \in 1..Len(lifterList) : lifterList[k].equipment = "equipped"
  /\ Len(pageResult) = 1


ForcedFragment(html) ==
  IF extractThrows(html) THEN html ELSE extractCompetitionTables(html)

\* The competition data and the lifters of a result, without the metadata.
DataOf(groups) ==
  [k \in 1..Len(groups) |->
     [ competition |-> groups[k].competition, lifters |-> groups[k].lifters ]]

\* C28: in a history without crash and without failed file operation, a
\* call that returns, with caching enabled or not, forced or not, skipped
\* or not, returns the competition data and the lifters a forced call
\* would return for the page it fetched; the results differ only in the
\* flags skipped, cached and hashMatch, which are equal to one another in
\* every group.
C28_SkipEqualsRescrape ==
  (call.status = "returned" /\ faults = 0) =>
    /\ DataOf(call.result)
         = parseCompetitionPage(ForcedFragment(call.html), call.id)
    /\ \A g \in 1..Len(call.result) :
          /\ call.result[g].metadata.skipped = call.result[g].metadata.cached
          /\ call.result[g].metadata.cached
               = call.result[g].metadata.hashMatch
          /\ call.result[g].metadata.skipped => (call.useCache /\ ~call.force)

\* A skipped call that returns lifters read from the cached fragment.
C28_Witness ==
  /\ call.status = "returned"
  /\ faults = 0
  /\ call.skipped
  /\ call.result[1].metadata.skipped
  /\ call.tableHtml = htmlFile[call.id].data
  /\ Len(call.result[1].lifters) >= 1


(***************************************************************************)
(* parseCompetitionPage on tables of one row under the header rows: every  *)
(* layout of header and sub-header row with a data row, and the two        *)
(* headers of the result pages with every row of a larger catalogue.       *)
(***************************************************************************)
MaxSubHeaderRuns == 3   \* most 1 2 3 runs of a sub-header row

\* The identity columns of a header row.
LayoutPrefix(kind) ==
  CASE kind = "full" -> SubSeq(HeaderWithGender, 1, 6)
    [] kind = "plain" -> SubSeq(HeaderPlain, 1, 5)
    [] kind = "names" -> << Cell("nimi"), Cell("seura") >>

\* The columns of one lift: none, the name alone, the numbered attempts
\* before the name, or the numbered attempts without a name.
LiftBlock(name, kind) ==
  CASE kind = "none" -> << >>
    [] kind = "name" -> << Cell(name) >>
    [] kind = "numbered" -> << Cell("1"), Cell("2"), Cell("3"), Cell(name) >>
    [] kind = "run" -> << Cell("1"), Cell("2"), Cell("3"), Cell("") >>

LayoutSuffix(kind) ==
  IF kind = "totals" THEN << Cell("yhteistulos"), Cell("ipf gl") >> ELSE << >>

\* The names of the lifts in a header row: written out, abbreviated, or the
\* bench press written out between two abbreviations.
LiftNames(naming) ==
  CASE naming = "long" -> <<"jalkakyykky", "penkkipunnerrus", "maastanosto">>
    [] naming = "short" -> <<"jk", "pp", "mn">>
    [] naming = "mixed" -> <<"jk", "penkkipunnerrus", "mn">>

LayoutHeader(prefix, naming, squat, bench, deadlift, suffix) ==
  LayoutPrefix(prefix) \o LiftBlock(LiftNames(naming)[1], squat)
  \o LiftBlock(LiftNames(naming)[2], bench)
  \o LiftBlock(LiftNames(naming)[3], deadlift) \o LayoutSuffix(suffix)

\* A sub-header row: blank cells under the identity columns, then so many
\* runs of numbered attempts, then the total and the points.
SubHeader(blanks, runs) ==
  [k \in 1..blanks |-> Cell("")]
  \o [k \in 1..(4 * runs) |->
        IF k % 4 = 0 THEN Cell("") ELSE HeaderWithGender[6 + (k % 4)]]
  \o << Cell("yhteistulos"), Cell("ipf gl") >>

LiftKinds == {"none", "name", "numbered", "run"}

\* The header rows with one prefix: a header row alone or with a
\* sub-header row.
LayoutsWith(prefix) ==
  { <<LayoutHeader(prefix, naming, squat, bench, deadlift, suffix)>> \o sub :
      naming \in {"long", "short", "mixed"}, squat \in LiftKinds,
      bench \in LiftKinds, deadlift \in LiftKinds \ {"run"},
      suffix \in {"totals", "none"},
      sub \in {<< >>} \cup { <<SubHeader(Len(LayoutPrefix(prefix)), runs)>> :
                              runs \in 0..MaxSubHeaderRuns } }

Layouts == UNION { LayoutsWith(prefix) : prefix \in {"full", "plain", "names"} }

\* A data row with the weight class, the position and the name given.
RowWith(header, position, weightClass, name) ==
  DataRow(header, position, "", weightClass, "62", name, "tvk",
          << Cell("100"), Struck("105"), Cell("") >>,
          << Cell("57"), Cell("-"), Cell("") >>,
          << Cell("110"), Cell(""), Cell("") >>, "210", "90")

\* A data row with the bench attempts given.
RowLifting(header, bench) ==
  DataRow(header, "1", "", "63", "62", "anna", "tvk", NoCells, bench, NoCells,
          "", "")

\* The rows of the catalogue beyond RowsUnder.
MoreRowsUnder(header) ==
  { RowWith(header, "1", weightClass, "anna") :
      weightClass \in {"74", "84+", "m74", "105", "120", "120+", "m105",
                       "m120+", "n40 57", ""} }
  \cup { RowWith(header, position, "63", "anna") :
           position \in {"0", "-1", "-", ""} }
  \cup { RowWith(header, "1", "63", name) :
           name \in {"klassinen", "tuomari", ""} }
  \cup { SubSeq(RowWith(header, "1", "63", "anna"), 1, cells) :
           cells \in {4, 5, 6, 11} }
  \cup { RowLifting(header, <<first, second, Cell("")>>) :
           first \in {Cell("0"), Cell("x"), Cell("-100"), Struck("100")},
           second \in {Cell("-"), Struck("-100"), Struck("0"), Cell("110")} }

\* The tables: every layout with a data row laid out for the plain header,
\* either header with every row of the catalogue, and either header with
\* an age class header row between two data rows.
LayoutTables ==
  { layout \o <<RowsUnder(HeaderPlain)[1]>> : layout \in Layouts }
  \cup UNION { { <<header, RowsUnder(header)[k]>> :
                   k \in 1..Len(RowsUnder(header)) }
               \cup { <<header, row>> : row \in MoreRowsUnder(header) }
               \cup { <<header, RowsUnder(header)[1], RowsUnder(header)[8],
                        RowsUnder(header)[1]>> } :
               header \in Headers }

InitLayout ==
  /\ ScraperIdle
  /\ ValidatorOff
  /\ competition \in Ids
  /\ trows \in LayoutTables
  /\ laterTables = << >>
  /\ ppc = "table"
  /\ columnMap = << >>
  /\ dataStartIndex = 0
  /\ defaultGender = ""
  /\ curGender = ""
  /\ curAgeClass = ""
  /\ curEquipment = ""
  /\ rowIdx = 0
  /\ lifterList = << >>
  /\ pageResult = << >>

SpecLayout == InitLayout /\ [][NextParse]_vars


\* ------------------------------------------------ claims on detectColumnMap
\* The attempt columns start, start + 1, start + 2 of a lift; none when the
\* start is undefined.
AttemptColumns(start) == IF start = -1 THEN {} ELSE start..(start + 2)

\* C23: the column map detectColumnMap returns for a header row and an
\* optional sub-header row never gives two lifts the same or overlapping
\* attempt columns.
C23_DisjointRuns ==
  ppc # "table" =>
    /\ AttemptColumns(columnMap.squatStart)
         \cap AttemptColumns(columnMap.benchStart) = {}
    /\ AttemptColumns(columnMap.squatStart)
         \cap AttemptColumns(columnMap.deadliftStart) = {}
    /\ AttemptColumns(columnMap.benchStart)
         \cap AttemptColumns(columnMap.deadliftStart) = {}


\* The header row of the table has a cell that names the lift.
HasLiftHeader(IsLift(_)) ==
  \E k \in 1..Len(trows[dataStartIndex - (IF hasSubHeaderRow(trows) THEN 2 ELSE 1)]) :
     IsLift(trows[dataStartIndex - (IF hasSubHeaderRow(trows) THEN 2 ELSE 1)][k].text)

\* A bench press header and neither a squat nor a deadlift header.
BenchOnlyLayout ==
  /\ HasLiftHeader(IsBenchHeader)
  /\ ~HasLiftHeader(IsSquatHeader)
  /\ ~HasLiftHeader(IsDeadliftHeader)

\* C24: detectColumnMap leaves the squat and the deadlift start undefined
\* exactly for a bench-only layout, every lifter of such a table has three
\* zero-weight failed squat and deadlift attempts, and the start of a lift
\* whose header cell is present is never cleared.
C24_BenchOnly ==
  ppc # "table" =>
    /\ (columnMap.squatStart = -1 /\ columnMap.deadliftStart = -1)
         <=> BenchOnlyLayout
    /\ BenchOnlyLayout =>
         \A k \in 1..Len(lifterList) :
            lifterList[k].squat = NoLift /\ lifterList[k].deadlift = NoLift
    /\ HasLiftHeader(IsSquatHeader) => columnMap.squatStart # -1
    /\ HasLiftHeader(IsDeadliftHeader) => columnMap.deadliftStart # -1


\* ------------------------------------------- claims on positional defaults
\* The header rows gave the column of at least one field.
HasHeaderSignal(map) ==
  \E field \in DOMAIN map : map[field] # -1

\* The text of the cell at a detected column, nothing for a field the
\* header rows did not give.
DetectedText(row, index) == IF index = -1 THEN "" ELSE TextAt(row, index)

\* C26: as soon as the header rows carry any header signal, the fields of a
\* lifter are read only from the columns the mapping detected; the
\* positional default columns (position 0, weight class 2, body weight 3,
\* name 4, club 5, bench attempts 10, total 18, points 19) are not read.
C26_PositionalDefaults ==
  [][ (EmitsLifter /\ HasHeaderSignal(columnMap)) =>
        /\ Emitted.position
             = NumberOf(DetectedText(trows[rowIdx], columnMap.position))
        /\ Emitted.weightClass
             = weightClassOf(DetectedText(trows[rowIdx], columnMap.weightClass))
        /\ Emitted.bodyWeight
             = NumberOf(DetectedText(trows[rowIdx], columnMap.bodyWeight))
        /\ Emitted.name = DetectedText(trows[rowIdx], columnMap.name)
        /\ Emitted.club = DetectedText(trows[rowIdx], columnMap.club)
        /\ Emitted.bench = parseAttempts(trows[rowIdx], columnMap.benchStart)
        /\ Emitted.total
             = NumberOf(DetectedText(trows[rowIdx], columnMap.total))
        /\ Emitted.points
             = NumberOf(DetectedText(trows[rowIdx], columnMap.points)) ]_vars


\* ------------------------------------ claims on weight class normalization
\* A weight class text of the form the claim is about: an optional gender
\* letter, a class number, an optional plus sign.
ClassBody(chars) ==
  IF chars # << >> /\ IsGenderLetter(chars[1]) THEN Tail(chars) ELSE chars

IsClassText(chars) ==
  /\ DigitRun(ClassBody(chars), 1) >= 2
  /\ \/ Len(ClassBody(chars)) = DigitRun(ClassBody(chars), 1)
     \/ /\ Len(ClassBody(chars)) = DigitRun(ClassBody(chars), 1) + 1
        /\ ClassBody(chars)[Len(ClassBody(chars))] = "+"

\* The class number followed by the plus sign, or the minus sign followed
\* by the class number.
ClaimedClass(chars) ==
  IF ClassBody(chars)[Len(ClassBody(chars))] = "+" THEN ClassBody(chars)
  ELSE <<"-">> \o ClassBody(chars)

\* C25: a weight class cell made of a class number of two or three digits,
\* optionally followed by "+" and optionally preceded by a gender letter, is
\* normalized to the number followed by "+" when the "+" is there, and to
\* "-" followed by the number otherwise.
C25_WeightClassNormalized ==
  [][ ( /\ EmitsLifter
        /\ IsClassText(CharsOf(TextAt(trows[rowIdx],
                                      OrDefault(columnMap.weightClass, 2)))) )
      => Emitted.weightClass
           = ClaimedClass(CharsOf(TextAt(trows[rowIdx],
                                         OrDefault(columnMap.weightClass, 2)))) ]_vars


\* ------------------------------------------------ claims on attempt parsing
\* What the cell at a column says about an attempt: nothing when there is
\* no such cell, when it reads empty, "-" or "0", or when its text is no
\* number; else the absolute value of the number, good unless struck.
ClaimedAttempt(row, index) ==
  IF index < 0 \/ index >= Len(row) THEN [weight |-> 0, success |-> FALSE]
  ELSE IF row[index + 1].text \in {"", "-", "0"}
          \/ NumberOf(row[index + 1].text) = 0
       THEN [weight |-> 0, success |-> FALSE]
  ELSE [ weight |-> IF NumberOf(row[index + 1].text) < 0
                    THEN 0 - NumberOf(row[index + 1].text)
                    ELSE NumberOf(row[index + 1].text),
         success |-> ~row[index + 1].struck ]

ClaimedAttempts(row, start) ==
  IF start = -1
  THEN [a \in 1..3 |-> [weight |-> 0, success |-> FALSE]]
  ELSE [a \in 1..3 |-> ClaimedAttempt(row, start + a - 1)]

ConsumedAsBanner(row, map) ==
  \/ /\ IsBannerRow(row)
     /\ \/ extractEquipmentLabel(row) # ""
        \/ extractGenderLabel(row) # ""
        \/ \E word \in {"naiset", "women", "miehet", "men"} : RowTextIs(row, word)
  \/ IsAgeClassBanner(row, map)

\* A name that is a division or gender word, or that holds the word of a
\* legend, record or judge row.
IsNonCompetitor(name) ==
  \/ name \in {"klassinen", "varuste", "naiset", "miehet"}
  \/ \E part \in {"etunimi", "ennätykset", "tuomari"} : Includes(name, part)

\* A row that is no banner, with a name that is no non-competitor label and
\* a position that starts with a digit.
ClaimedLifterRow(row, map) ==
  /\ ~ConsumedAsBanner(row, map)
  /\ TextAt(row, OrDefault(map.name, 4)) # ""
  /\ ~IsNonCompetitor(TextAt(row, OrDefault(map.name, 4)))
  /\ StartsWithDigit(TextAt(row, OrDefault(map.position, 0)))

\* C21 as stated: a row yields a lifter if and only if it is not consumed
\* as a banner, its name cell is non-empty and no non-competitor label, and
\* its position cell starts with a digit; such a row yields exactly one
\* lifter and every other row none.
C21_RowEmission ==
  [][ TakesRow =>
        Len(lifterList')
          = Len(lifterList)
            + (IF ClaimedLifterRow(trows[rowIdx], columnMap) THEN 1 ELSE 0) ]_vars

\* The row has a cell at each of the columns of position, gender, weight
\* class, body weight, name and club.
HasIdentityCells(row, map) ==
  \A index \in { OrDefault(map.position, 0), map.gender,
                  OrDefault(map.weightClass, 2), OrDefault(map.bodyWeight, 3),
                  OrDefault(map.name, 4), OrDefault(map.club, 5) } :
     index < Len(row)

\* C21 amended: a row yields a lifter if and only if it has a cell at every
\* identity column, is not consumed as a banner, its name cell is non-empty
\* and no non-competitor label, and its position cell starts with a digit
\* or reads as an integer other than zero; such a row yields exactly one
\* lifter and every other row none.
C21_RowEmissionOfWideRows ==
  [][ TakesRow =>
        Len(lifterList')
          = Len(lifterList)
            + (IF /\ HasIdentityCells(trows[rowIdx], columnMap)
                  /\ ~ConsumedAsBanner(trows[rowIdx], columnMap)
                  /\ TextAt(trows[rowIdx], OrDefault(columnMap.name, 4)) # ""
                  /\ ~IsNonCompetitor(TextAt(trows[rowIdx],
                                             OrDefault(columnMap.name, 4)))
                  /\ \/ StartsWithDigit(TextAt(trows[rowIdx],
                                                OrDefault(columnMap.position, 0)))
                     \/ NumberOf(TextAt(trows[rowIdx],
                                         OrDefault(columnMap.position, 0))) # 0
               THEN 1 ELSE 0) ]_vars

\* A row with a name and a position that ends before the club column, taken
\* without a lifter.
C21_Witness ==
  /\ ppc = "rows"
  /\ Len(trows) = 2
  /\ rowIdx = 3
  /\ trows[1] = HeaderPlain
  /\ Len(trows[2]) = 4
  /\ TextAt(trows[2], columnMap.name) = "anna"
  /\ TextAt(trows[2], columnMap.position) = "1"
  /\ lifterList = << >>


(***************************************************************************)
(* parseCompetitionPage on a document with several tables: the loop of     *)
(* parseLifters over the tables (parser.ts:197).  The locals of the loop   *)
(* body are declared anew for every table; the model keeps what the last   *)
(* table left in them until SetupTable assigns them.                       *)
(***************************************************************************)
MaxTables == 2      \* most tables of a document

\* The first table of a document: a header and up to two rows.
FirstTables ==
  UNION { { TableOf(header, choice) : choice \in [1..n -> 1..Len(RowsUnder(header))] } :
            header \in Headers, n \in 0..2 }

\* A later table: a header with a data row or an equipment banner, or a
\* table without header row.
MoreTables ==
  { <<header, RowsUnder(header)[k]>> : header \in Headers, k \in {1, 2, 4} }
  \cup { << <<Cell("anna"), Cell("tvk")>> >> }

InitPage ==
  /\ ScraperIdle
  /\ ValidatorOff
  /\ competition \in Ids
  /\ trows \in FirstTables
  /\ \E n \in 1..(MaxTables - 1) : laterTables \in [1..n -> MoreTables]
  /\ ppc = "table"
  /\ columnMap = << >>
  /\ dataStartIndex = 0
  /\ defaultGender = ""
  /\ curGender = ""
  /\ curAgeClass = ""
  /\ curEquipment = ""
  /\ rowIdx = 0
  /\ lifterList = << >>
  /\ pageResult = << >>

\* if (headerRowIndex === -1) continue: a table without a row that holds
\* "nimi" and "seura" gives no lifter.
SkipTable ==
  /\ ppc = "table"
  /\ headerRowIndexOf(trows) = 0
  /\ rowIdx' = Len(trows) + 1
  /\ ppc' = "rows"
  /\ UNCHANGED <<competition, trows, laterTables, columnMap, dataStartIndex,
                 defaultGender, curGender, curAgeClass, curEquipment,
                 lifterList, pageResult, scraperVars, validatorVars>>

\* for (const table of tables): on to the next table.
NextTable ==
  /\ ppc = "rows"
  /\ rowIdx > Len(trows)
  /\ laterTables # << >>
  /\ trows' = Head(laterTables)
  /\ laterTables' = Tail(laterTables)
  /\ ppc' = "table"
  /\ UNCHANGED <<competition, columnMap, dataStartIndex, defaultGender,
                 curGender, curAgeClass, curEquipment, rowIdx, lifterList,
                 pageResult, scraperVars, validatorVars>>

NextPage ==
  \/ SetupTable
  \/ SkipTable
  \/ AgeClassHeaderRow
  \/ ShortRow
  \/ EquipmentRow
  \/ GenderRow
  \/ LiteralGenderRow
  \/ SkipRow
  \/ EmitLifter
  \/ NextTable
  \/ ReturnResults

SpecPage == InitPage /\ [][NextPage]_vars

\* ------------------------------------------- claims on documents of tables
\* The live gender the loop of a table starts with, from the rows of the
\* table alone.
GenderOfTable(rows, start, map) ==
  IF findGenderBeforeIndex(rows, start) = ""
  THEN defaultGenderOf(rows, start, map)
  ELSE findGenderBeforeIndex(rows, start)

\* C30: the column map is rebuilt from the header rows of each table, the
\* live equipment starts at raw for each table, the live gender and age
\* class a table starts with come from rows of that table only, and moving
\* to the next table emits nothing; so the first lifter below the header
\* rows of a table is raw and has the gender and age class its own row and
\* its own table give it, whatever banners the tables before it had.
C30_TableLocalContext ==
  [][ /\ (ppc = "table" /\ ppc' = "rows" /\ headerRowIndexOf(trows) # 0) =>
           /\ columnMap'
                = detectColumnMap(trows[headerRowIndexOf(trows)],
                    IF hasSubHeaderRow(trows)
                    THEN trows[headerRowIndexOf(trows) + 1] ELSE << >>)
           /\ curEquipment' = "raw"
           /\ curGender' = GenderOfTable(trows, dataStartIndex', columnMap')
           /\ curAgeClass'
                = findAgeClassBeforeIndex(trows, dataStartIndex', columnMap')
      /\ (ppc = "table" /\ headerRowIndexOf(trows) = 0) =>
           lifterList' = lifterList
      /\ trows' # trows => lifterList' = lifterList
      /\ (EmitsLifter /\ rowIdx = dataStartIndex) =>
           /\ Emitted.equipment = "raw"
           /\ Emitted.ageClass
                = IF AgeClassIn(TextAt(trows[rowIdx],
                                       OrDefault(columnMap.weightClass, 2))) # ""
                  THEN AgeClassIn(TextAt(trows[rowIdx],
                                         OrDefault(columnMap.weightClass, 2)))
                  ELSE findAgeClassBeforeIndex(trows, dataStartIndex, columnMap)
           /\ Emitted.gender
                = lifterGender(IF columnMap.gender # -1
                               THEN TextAt(trows[rowIdx], columnMap.gender)
                               ELSE "",
                               GenderOfTable(trows, dataStartIndex, columnMap),
                               defaultGenderOf(trows, dataStartIndex, columnMap))
    ]_vars

\* A document whose first table gave, below an equipment banner, an
\* equipped lifter with an age class, and whose second table gave a raw
\* lifter without age class.
C30_Witness ==
  /\ ppc = "rows"
  /\ laterTables = << >>
  /\ Len(trows) = 2
  /\ rowIdx = 3
  /\ Len(lifterList) = 2
  /\ lifterList[1].equipment = "equipped"
  /\ lifterList[1].ageClass = "N40"
  /\ lifterList[2].equipment = "raw"
  /\ lifterList[2].ageClass = ""

====
